---- MODULE Spec2Model ----
(***************************************************************************)
(* The training orchestrator of tools/energy_joint_train_cd.py: train(),   *)
(* fix_eval_modules() and run_energy_val().  One process is modelled from  *)
(* its construction to the end of the training loop; a process that has    *)
(* ended may be started again and then resumes from the checkpoint that    *)
(* the earlier process left on disk.                                       *)
(*                                                                         *)
(* SpecRanks is the distributed run of main(): the processes of all ranks, *)
(* their collective operations and their writes to the output directory.   *)
(* SpecVal and SpecLosses apply run_energy_val and the loss merging of the *)
(* loop to all their inputs.                                               *)
(*                                                                         *)
(* Validation metrics are exact rationals in tenths: 0.4 is 4, the         *)
(* sentinel -1 is -10.                                                     *)
(***************************************************************************)
EXTENDS FiniteSets, Integers, Sequences, TLC

(* ------------------------------ bounds --------------------------------- *)

\* the largest SOLVER.MAX_ITER (the length of the training loader)
MaxIter == 12
\* the largest SOLVER.SCHEDULE.MAX_DECAY_STEP
MaxDecay == 2
\* how many times an ended process is started again
MaxRestarts == 1
\* the largest number of workers whose validation scalars are gathered
MaxWorkers == 4

(* ------------------------- program constants --------------------------- *)

\* "if cfg.MODEL.DEV_RUN and iteration == 10"
DevRunStop == 10
\* the field width of "model_{:07d}"
NameWidth == 7
\* ReduceLROnPlateau: the number of validations without improvement that
\* triggers a decay
Patience == 1

PLATEAU == "WarmupReduceLROnPlateau"
MULTISTEP == "WarmupMultiStepLR"

(* ------------------------------ modules -------------------------------- *)

\* the sub-modules of base_model, and the energy model
BaseModules == {"backbone", "rpn", "roi_heads.box", "roi_heads.relation"}
Modules == BaseModules \cup {"energy_model"}

\* eval_modules = (base_model.backbone, base_model.rpn, base_model.roi_heads.box,)
eval_modules == <<"backbone", "rpn", "roi_heads.box">>

SeqRange(s) == {s[i] : i \in 1..Len(s)}

(* ---------------------------- checkpoint names ------------------------- *)

DigitChars == <<"0", "1", "2", "3", "4", "5", "6", "7", "8", "9">>

RECURSIVE Digits(_)
\* the decimal digits of n >= 0, most significant first
Digits(n) == IF n < 10 THEN <<DigitChars[n + 1]>>
             ELSE Append(Digits(n \div 10), DigitChars[(n % 10) + 1])

RECURSIVE ZeroPad(_, _)
ZeroPad(s, w) == IF Len(s) >= w THEN s ELSE ZeroPad(<<"0">> \o s, w)

\* a mutant of PeriodicName: the name is formatted from the enumerate index
PeriodicNameOffByOne(n) == <<"model_">> \o ZeroPad(Digits(n - 1), NameWidth)

\* "model_{:07d}".format(iteration)
PeriodicName(n) == <<"model_">> \o ZeroPad(Digits(n), NameWidth)

FinalName == <<"model_", "final">>

DigitValue(c) == CHOOSE d \in 0..9 : DigitChars[d + 1] = c

RECURSIVE ParseDigits(_)
ParseDigits(s) == IF Len(s) = 0 THEN 0
                  ELSE 10 * ParseDigits(SubSeq(s, 1, Len(s) - 1)) + DigitValue(s[Len(s)])

\* the counter embedded in a periodic checkpoint name
EmbeddedCounter(name) == ParseDigits(Tail(name))

(* ------------------------- validation scalars -------------------------- *)

None == [kind |-> "none", num |-> 0, den |-> 1]
NaN == [kind |-> "nan", num |-> 0, den |-> 1]
NegInf == [kind |-> "neginf", num |-> 0, den |-> 1]

RECURSIVE Gcd(_, _)
Gcd(a, b) == IF b = 0 THEN a ELSE Gcd(b, a % b)

\* the rational n/d (d > 0) in lowest terms
Rat(n, d) == LET a == IF n < 0 THEN -n ELSE n
                 g == IF a = 0 THEN d ELSE Gcd(a, d)
             IN [kind |-> "num", num |-> n \div g, den |-> d \div g]

RECURSIVE SeqSum(_)
SeqSum(s) == IF Len(s) = 0 THEN 0 ELSE s[1] + SeqSum(Tail(s))

\* gathered_result[gathered_result >= 0]
RECURSIVE ValidEntries(_)
ValidEntries(s) == IF Len(s) = 0 THEN <<>>
                   ELSE IF s[1] >= 0 THEN <<s[1]>> \o ValidEntries(Tail(s))
                   ELSE ValidEntries(Tail(s))

\* tensor.mean(): the mean of an empty tensor is nan
Mean(s) == IF Len(s) = 0 THEN NaN ELSE Rat(SeqSum(s), Len(s))

\* a mutant of RunEnergyValResult: the sentinels are averaged too
RunEnergyValNoFilter(gathered) == Mean(gathered)

\* run_energy_val, from the gathered per-worker scalars to the returned float
RunEnergyValResult(gathered) == Mean(ValidEntries(gathered))

(* --------------------------- the schedulers ---------------------------- *)

\* a scheduler as make_lr_scheduler returns it
NewScheduler == [stage_count |-> 0, best |-> NegInf, num_bad_epochs |-> 0,
                 last_epoch |-> 0]

\* metrics > best, for a metric that is a number (nan compares false)
Improves(metrics, best) ==
    /\ metrics.kind = "num"
    /\ \/ best.kind = "neginf"
       \/ metrics.num * best.den > best.num * metrics.den

\* WarmupReduceLROnPlateau.step(metrics, epoch): a metric of None changes
\* nothing but the epoch; a metric that does not improve on the best one is a
\* bad epoch, and Patience bad epochs fire a decay, which counts a stage
PlateauStep(s, metrics, epoch) ==
    IF metrics = None
    THEN [s EXCEPT !.last_epoch = epoch]
    ELSE LET good == Improves(metrics, s.best)
             bad == IF good THEN 0 ELSE s.num_bad_epochs + 1
             decay == bad >= Patience
         IN [stage_count |-> IF decay THEN s.stage_count + 1 ELSE s.stage_count,
             best |-> IF good THEN metrics ELSE s.best,
             num_bad_epochs |-> IF decay THEN 0 ELSE bad,
             last_epoch |-> epoch]

\* scheduler.step() of an iteration-based schedule
PlainStep(s) == [s EXCEPT !.last_epoch = @ + 1]

(* --------------------------- gradient flags ---------------------------- *)

\* nn.Module.train(): the training flag of every listed module is set
ModuleTrain(flags, mods) == [m \in Modules |-> IF m \in mods THEN TRUE ELSE flags[m]]

\* model.eval(), called by the inference routine
ModuleEval(flags, mods) == [m \in Modules |-> IF m \in mods THEN FALSE ELSE flags[m]]

\* a mutant of fix_eval_modules: the last module of the tuple is skipped
FixEvalSkipsLast(grad, mods) ==
    [m \in Modules |-> IF m \in SeqRange(SubSeq(mods, 1, Len(mods) - 1)) THEN FALSE ELSE grad[m]]

\* fix_eval_modules(eval_modules): param.requires_grad = False for every
\* parameter of every module of the tuple
fix_eval_modules(grad, mods) ==
    [m \in Modules |-> IF m \in SeqRange(mods) THEN FALSE ELSE grad[m]]

(* ------------------------------- state --------------------------------- *)

VARIABLES
    cfg,               \* the frozen configuration
    pc,                \* the position of the process in train()
    iteration,         \* the local variable iteration of the loop
    arguments,         \* the dictionary arguments
    start_iter,        \* start_iter, read from arguments before the loop
    enum_index,        \* the next index enumerate(train_data_loader, start_iter) yields
    requires_grad,     \* module -> requires_grad of its parameters
    training,          \* module -> its training flag
    base_optimizer,    \* [steps]: the steps the state of base_optimizer has seen
    energy_optimizer,  \* [steps]: the steps the state of energy_optimizer has seen
    base_scheduler,
    energy_scheduler,
    val_result,        \* the local variable val_result of the loop
    gathered,          \* the scalars all_gather returned to the last run_energy_val
    log,               \* the calls of this loop pass, in order: [op, arg]
    saved,             \* the checkpointer.save calls of this loop pass: [name, iteration]
    disk,              \* the last checkpoint of the output directory
    restarts,          \* how many times the process was started again
    batch,             \* the batch of this loop pass
    fwd,               \* the values lines 205-252 computed in this loop pass
    procs,             \* rank -> the process of that rank, in a distributed run
    outdir,            \* the output directory of a distributed run
    print_first_grad,  \* the local variable print_first_grad of train()
    step_calls         \* optimizer or scheduler -> the step() calls this process made

vars == <<cfg, pc, iteration, arguments, start_iter, enum_index, requires_grad,
          training, base_optimizer, energy_optimizer, base_scheduler,
          energy_scheduler, val_result, gathered, log, saved, disk, restarts,
          batch, fwd, procs, outdir, print_first_grad, step_calls>>

\* the argument of a call that takes none
Absent == [kind |-> "absent", num |-> 0, den |-> 1]

Call(op) == [op |-> op, arg |-> Absent]
CallWith(op, arg) == [op |-> op, arg |-> arg]

\* the positions of op in a log
Positions(l, op) == {i \in 1..Len(l) : l[i].op = op}

\* a process that has made no step() call
NoStepCalls == [base_optimizer |-> 0, energy_optimizer |-> 0,
                base_scheduler |-> 0, energy_scheduler |-> 0]

\* step_calls after one more step() of each of the two named objects
Stepped(calls, a, b) == [calls EXCEPT ![a] = @ + 1, ![b] = @ + 1]

\* before the first batch and the first forward pass of a process
NoBatch == [empty_target |-> FALSE]
NoForward == [done |-> FALSE]

\* before distributed processes exist
NoProcs == <<>>
NoOutdir == [exists |-> FALSE, writes |-> {}]

\* a mutant of checkpointer: it is given the detector's optimizer and
\* scheduler too
CheckpointerWithBase ==
    [base_optimizer |-> TRUE, energy_optimizer |-> TRUE,
     base_scheduler |-> TRUE, energy_scheduler |-> TRUE]

\* lines 137-142: the optimizers and schedulers the checkpointer is given;
\* base_optimizer=None and base_scheduler=None
checkpointer ==
    [base_optimizer |-> FALSE, energy_optimizer |-> TRUE,
     base_scheduler |-> FALSE, energy_scheduler |-> TRUE]

\* an optimizer as make_optimizer builds it (lines 90-91)
NewOptimizer == [steps |-> 0]

\* what a checkpoint holds besides the optimizers and schedulers
ModelParts == {"base_model", "energy_model", "iteration"}

NoCheckpoint == [exists |-> FALSE, name |-> <<>>, parts |-> {}, iteration |-> 0,
                 base_optimizer |-> NewOptimizer, energy_optimizer |-> NewOptimizer,
                 base_scheduler |-> NewScheduler, energy_scheduler |-> NewScheduler]

\* the configurations; a key the run never reads is held at one value; the
\* modes other than "predcls", which change only the node states the forward
\* pass hands to the graphs, run with the short loader and without
\* validation, and the second period of the gradient diagnostic, which
\* changes only the verbose flag of the clipping calls, runs without
\* validation; the validation before the training, which changes what the
\* first pass starts from, runs with the short loader; and
\* SOLVER.UPDATE_SCHEDULE_DURING_LOAD, which a load from a checkpoint alone
\* reads, is set with the long loader and the short checkpoint period
Configs ==
    {c \in [SCHEDULE_TYPE : {PLATEAU, MULTISTEP},
            MAX_DECAY_STEP : 1..MaxDecay,
            TO_VAL : BOOLEAN,
            VAL_PERIOD : {2, 3},
            CHECKPOINT_PERIOD : {2, 5},
            DEV_RUN : BOOLEAN,
            MAX_ITER : {MaxIter - 8, MaxIter},
            MODE : {"predcls", "sgcls", "sgdet"},
            PRINT_GRAD_FREQ : {2, 3},
            PRE_VAL : BOOLEAN,
            UPDATE_SCHEDULE_DURING_LOAD : BOOLEAN] :
        /\ c.SCHEDULE_TYPE = MULTISTEP => c.MAX_DECAY_STEP = 1
        /\ ~c.TO_VAL => c.VAL_PERIOD = 2
        /\ c.MODE # "predcls" => (c.MAX_ITER = MaxIter - 8 /\ ~c.TO_VAL)
        /\ c.PRINT_GRAD_FREQ # 3 => ~c.TO_VAL
        /\ c.PRE_VAL => /\ c.MAX_ITER = MaxIter - 8
                        /\ c.MODE = "predcls"
                        /\ c.PRINT_GRAD_FREQ = 3
        /\ c.UPDATE_SCHEDULE_DURING_LOAD => /\ c.MAX_ITER = MaxIter
                                            /\ c.CHECKPOINT_PERIOD = 2
                                            /\ c.MODE = "predcls"
                                            /\ c.PRINT_GRAD_FREQ = 3
                                            /\ ~c.DEV_RUN
                                            /\ c.TO_VAL = (c.SCHEDULE_TYPE = PLATEAU)}

\* the gradient flags freshly built models can have; the relation head, the
\* part of the detector that is trained, is built with gradients enabled
BuiltGrads == {g \in [Modules -> BOOLEAN] : g["roi_heads.relation"]}

\* the gathered validation scalars of the training runs: rank 0 reports its
\* metric, the other rank the sentinel
LoopGathered == {<<m, -10>> : m \in {2, 5}}

\* the in-memory state of a process that has built its models, optimizers and
\* schedulers (lines 46-95) and created arguments (lines 130-131)
Constructed(p, it, args, st, ei, tr, bo, eo, bs, es, vr, g, l, sv) ==
    /\ p = "setup"
    /\ it = 0
    /\ args = [iteration |-> 0]
    /\ st = 0
    /\ ei = 0
    /\ tr = [m \in Modules |-> TRUE]
    /\ bo = NewOptimizer
    /\ eo = NewOptimizer
    /\ bs = NewScheduler
    /\ es = NewScheduler
    /\ vr = None
    /\ g = <<>>
    /\ l = <<>>
    /\ sv = <<>>

InitWith(configs, grads) ==
    /\ cfg \in configs
    /\ requires_grad \in grads
    /\ Constructed(pc, iteration, arguments, start_iter, enum_index, training,
                   base_optimizer, energy_optimizer, base_scheduler,
                   energy_scheduler, val_result, gathered, log, saved)
    /\ disk = NoCheckpoint
    /\ restarts = 0
    /\ batch = NoBatch
    /\ fwd = NoForward
    /\ procs = NoProcs
    /\ outdir = NoOutdir
    /\ print_first_grad = TRUE
    /\ step_calls = NoStepCalls

Init == InitWith(Configs, BuiltGrads)

(* ------------------------------ start-up ------------------------------- *)

\* a mutant of FixEvalModules: module.eval() is called on the modules too
FixEvalModulesWithEval ==
    /\ pc \in {"setup", "fix"}
    /\ requires_grad' = fix_eval_modules(requires_grad, eval_modules)
    /\ training' = ModuleEval(training, SeqRange(eval_modules))
    /\ pc' = IF pc = "setup" THEN "load" ELSE "energy_train"
    /\ log' = IF pc = "setup" THEN log ELSE Append(log, Call("fix_eval_modules"))
    /\ UNCHANGED <<cfg, batch, fwd, procs, outdir, print_first_grad, step_calls,
                   iteration, arguments, start_iter, enum_index,
                   base_optimizer, energy_optimizer, base_scheduler,
                   energy_scheduler, val_result, gathered, saved, disk, restarts>>

\* lines 61 and 197: fix_eval_modules(eval_modules)
FixEvalModules ==
    /\ pc \in {"setup", "fix"}
    /\ requires_grad' = fix_eval_modules(requires_grad, eval_modules)
    /\ pc' = IF pc = "setup" THEN "load" ELSE "energy_train"
    /\ log' = IF pc = "setup" THEN log ELSE Append(log, Call("fix_eval_modules"))
    /\ UNCHANGED <<cfg, batch, fwd, procs, outdir, print_first_grad, step_calls,
                   iteration, arguments, start_iter, enum_index, training,
                   base_optimizer, energy_optimizer, base_scheduler,
                   energy_scheduler, val_result, gathered, saved, disk, restarts>>

\* what checkpointer.load returns as extra_checkpoint_data
LoadedArguments(d) == [iteration |-> d.iteration]

\* the energy schedulers checkpointer.load(f, update_schedule) can leave,
\* built being the scheduler as constructed: without update_schedule the
\* persisted state is loaded into it; with update_schedule the load is asked
\* to update the schedule instead, and it is left open whether the persisted
\* state is loaded all the same or the scheduler is only set to the
\* persisted iteration
LoadedScheduler(d, built, update_schedule) ==
    IF update_schedule
    THEN {d.energy_scheduler, [built EXCEPT !.last_epoch = d.iteration]}
    ELSE {d.energy_scheduler}

\* an optimizer or scheduler after checkpointer.load: the persisted one when
\* the checkpointer was given it and the checkpoint holds it, else as built
Loaded(d, part, built) ==
    IF checkpointer[part] /\ part \in d.parts THEN d[part] ELSE built

\* lines 172-175: with SOLVER.PRE_VAL, run_energy_val before the loop; what
\* it returns is dropped, and the inference routine leaves the models in
\* evaluation mode
PreVal ==
    IF cfg.PRE_VAL
    THEN \E g \in LoopGathered :
            /\ gathered' = g
            /\ training' = ModuleEval(training, Modules)
    ELSE UNCHANGED <<gathered, training>>

\* a mutant of LoadCheckpoint: what checkpointer.load returns is not put
\* into arguments
LoadCheckpointNoUpdate ==
    /\ pc = "load"
    /\ energy_scheduler' \in IF disk.exists /\ checkpointer.energy_scheduler
                             THEN LoadedScheduler(disk, energy_scheduler,
                                                  cfg.UPDATE_SCHEDULE_DURING_LOAD)
                             ELSE {energy_scheduler}
    /\ start_iter' = arguments.iteration
    /\ enum_index' = start_iter'
    /\ PreVal
    /\ pc' = "fetch"
    /\ UNCHANGED <<cfg, batch, fwd, procs, outdir, print_first_grad, step_calls,
                   iteration, arguments, requires_grad, base_optimizer,
                   energy_optimizer, base_scheduler, val_result, log,
                   saved, disk, restarts>>

\* lines 130-181: with a checkpoint in the output directory
\* checkpointer.load is called with
\* update_schedule=cfg.SOLVER.UPDATE_SCHEDULE_DURING_LOAD (lines 145-146):
\* the persisted arguments and the energy optimizer are restored, the energy
\* scheduler is what the load leaves; the detector scheduler is not part of
\* a checkpoint and stays as built; then the validation before the
\* training, when SOLVER.PRE_VAL asks for it
LoadCheckpoint ==
    /\ pc = "load"
    /\ arguments' = IF disk.exists THEN LoadedArguments(disk) ELSE arguments
    /\ energy_scheduler' \in IF disk.exists /\ checkpointer.energy_scheduler
                             THEN LoadedScheduler(disk, energy_scheduler,
                                                  cfg.UPDATE_SCHEDULE_DURING_LOAD)
                             ELSE {energy_scheduler}
    /\ base_scheduler' = Loaded(disk, "base_scheduler", base_scheduler)
    /\ energy_optimizer' = Loaded(disk, "energy_optimizer", energy_optimizer)
    /\ base_optimizer' = Loaded(disk, "base_optimizer", base_optimizer)
    /\ start_iter' = arguments'.iteration
    /\ enum_index' = start_iter'
    /\ PreVal
    /\ pc' = "fetch"
    /\ UNCHANGED <<cfg, batch, fwd, procs, outdir, print_first_grad, step_calls,
                   iteration, requires_grad, val_result, log,
                   saved, disk, restarts>>

(* --------------------------- the loop pass ----------------------------- *)

\* the training loader yields batches until MAX_ITER of them were consumed,
\* counting those of the processes before a resume
LoaderHasNext == enum_index < cfg.MAX_ITER

\* the batches of the training loader: one whose targets all have an
\* annotated entity, and one with a target that has none
Batches == {[empty_target |-> e] : e \in BOOLEAN}

\* line 189: any(len(target) < 1 for target in targets)
AnyEmptyTarget(b) == b.empty_target

\* a mutant of LoopHead: a batch with an empty target is skipped
LoopHeadSkipsEmpty ==
    /\ pc = "fetch"
    /\ IF LoaderHasNext
       THEN \E b \in Batches :
               /\ batch' = b
               /\ iteration' = enum_index + 1
               /\ enum_index' = enum_index + 1
               /\ arguments' = [arguments EXCEPT !.iteration = iteration']
               /\ log' = IF AnyEmptyTarget(b) THEN <<Call("logger.error")>> ELSE <<>>
               /\ saved' = <<>>
               /\ pc' = IF AnyEmptyTarget(b) THEN "fetch" ELSE "train"
       ELSE /\ pc' = "done"
            /\ UNCHANGED <<batch, iteration, enum_index, arguments, log, saved>>
    /\ UNCHANGED <<cfg, fwd, procs, outdir, print_first_grad, step_calls,
                   start_iter, requires_grad, training, base_optimizer,
                   energy_optimizer, base_scheduler, energy_scheduler,
                   val_result, gathered, disk, restarts>>

\* lines 187-193: the next batch, or the end of the loop; an empty target is
\* logged as an error and the pass goes on
LoopHead ==
    /\ pc = "fetch"
    /\ IF LoaderHasNext
       THEN \E b \in Batches :
               /\ batch' = b
               /\ iteration' = enum_index + 1
               /\ enum_index' = enum_index + 1
               /\ arguments' = [arguments EXCEPT !.iteration = iteration']
               /\ log' = IF AnyEmptyTarget(b) THEN <<Call("logger.error")>> ELSE <<>>
               /\ saved' = <<>>
               /\ pc' = "train"
       ELSE /\ pc' = "done"
            /\ UNCHANGED <<batch, iteration, enum_index, arguments, log, saved>>
    /\ UNCHANGED <<cfg, fwd, procs, outdir, print_first_grad, step_calls,
                   start_iter, requires_grad, training, base_optimizer,
                   energy_optimizer, base_scheduler, energy_scheduler,
                   val_result, gathered, disk, restarts>>

\* line 196: base_model.train()
BaseModelTrain ==
    /\ pc = "train"
    /\ training' = ModuleTrain(training, BaseModules)
    /\ log' = Append(log, Call("base_model.train"))
    /\ pc' = "fix"
    /\ UNCHANGED <<cfg, batch, fwd, procs, outdir, print_first_grad, step_calls,
                   iteration, arguments, start_iter, enum_index,
                   requires_grad, base_optimizer, energy_optimizer,
                   base_scheduler, energy_scheduler, val_result, gathered,
                   saved, disk, restarts>>

\* line 198: energy_model.train()
EnergyModelTrain ==
    /\ pc = "energy_train"
    /\ training' = ModuleTrain(training, {"energy_model"})
    /\ log' = Append(log, Call("energy_model.train"))
    /\ pc' = "forward"
    /\ UNCHANGED <<cfg, batch, fwd, procs, outdir, print_first_grad, step_calls,
                   iteration, arguments, start_iter, enum_index,
                   requires_grad, base_optimizer, energy_optimizer,
                   base_scheduler, energy_scheduler, val_result, gathered,
                   saved, disk, restarts>>

(* the values of the forward pass, lines 205-252 *)

\* the keys of the two loss dictionaries: the detector and the loss function
\* name their losses in disjoint namespaces
TaskKeys == {"loss_rel", "loss_refine_obj"}
EnergyKeys == {"energy_loss", "energy_reg"}

\* the loss values, in tenths
LossValues == 0..2

\* the dictionaries over the non-empty subsets of a set of keys
Dicts(keys) == UNION {[ks -> LossValues] : ks \in (SUBSET keys) \ {{}}}

\* sum(d.values())
RECURSIVE DictSum(_)
DictSum(d) ==
    IF DOMAIN d = {} THEN 0
    ELSE LET k == CHOOSE x \in DOMAIN d : TRUE
         IN  d[k] + DictSum([x \in DOMAIN d \ {k} |-> d[x]])

\* a mutant of Merge: the keys of the first dictionary are dropped
MergeSecondOnly(a, b) == [k \in DOMAIN b |-> b[k]]

\* {**a, **b}: the keys of both, a key of both with the value of b
Merge(a, b) == [k \in DOMAIN a \cup DOMAIN b |-> IF k \in DOMAIN b THEN b[k] ELSE a[k]]

\* lines 239-242: the sums, the optimized objective and the merged dictionary
Losses(task_loss_dict, energy_loss_dict) ==
    [task_loss_dict   |-> task_loss_dict,
     energy_loss_dict |-> energy_loss_dict,
     task_losses      |-> DictSum(task_loss_dict),
     energy_losses    |-> DictSum(energy_loss_dict),
     total_losses     |-> DictSum(task_loss_dict) + DictSum(energy_loss_dict),
     loss_dict        |-> Merge(task_loss_dict, energy_loss_dict)]

\* the loss dictionaries of the training runs
LoopTaskLosses == {[k \in TaskKeys |-> 1]}
LoopEnergyLosses == {[k \in EnergyKeys |-> 2]}

\* a mutant of NodeStates: both graphs get the feature states in every mode
NodeStatesShared(mode, roi_features) ==
    [gt |-> roi_features, pred |-> roi_features]

\* lines 207-212: the node states of the two graphs
NodeStates(mode, roi_features) ==
    IF mode # "sgdet"
    THEN [gt |-> roi_features, pred |-> roi_features]
    ELSE [gt |-> "None", pred |-> roi_features]

\* lines 214-216: the graph of the annotated targets
gt2graph(node_states) ==
    [from |-> "targets", node_states |-> node_states, sampled |-> FALSE]

\* lines 218-220: the graph of the detections
detection2graph(node_states) ==
    [from |-> "detections", node_states |-> node_states, sampled |-> FALSE]

\* sampler.sample returns the scene graph it was given, refined
Sample(graph) == [graph EXCEPT !.sampled = TRUE]

\* the score the energy model gives a graph
energy_model(graph) == [energy_of |-> graph]

\* a mutant of ForwardValues: the sampler is given the graph of the targets,
\* and the negative energy scores the graph the sampler was not given
ForwardValuesSampleTargets(mode, losses) ==
    LET states     == NodeStates(mode, "roi_features")
        gt_graph   == gt2graph(states.gt)
        pred_graph == detection2graph(states.pred)
        gt_sampled == Sample(gt_graph)
    IN  [done            |-> TRUE,
         gt_graph        |-> gt_graph,
         pred_graph      |-> pred_graph,
         sampler_calls   |-> <<[graph |-> gt_graph, set_grad |-> FALSE]>>,
         pred_scene_graph |-> pred_graph,
         positive_energy |-> energy_model(gt_sampled),
         negative_energy |-> energy_model(pred_graph),
         losses          |-> losses]

\* lines 205-242: the detector's outputs, the two graphs, the one sampler call
\* on the graph of the detections, the two energies and the losses
ForwardValues(mode, losses) ==
    LET states     == NodeStates(mode, "roi_features")
        gt_graph   == gt2graph(states.gt)
        pred_graph == detection2graph(states.pred)
        sampled    == Sample(pred_graph)
    IN  [done            |-> TRUE,
         gt_graph        |-> gt_graph,
         pred_graph      |-> pred_graph,
         sampler_calls   |-> <<[graph |-> pred_graph, set_grad |-> FALSE]>>,
         pred_scene_graph |-> sampled,
         positive_energy |-> energy_model(gt_graph),
         negative_energy |-> energy_model(sampled),
         losses          |-> losses]

\* the calls of lines 205-252, in order
ForwardCalls == <<Call("base_model"), Call("gt2graph"), Call("detection2graph"),
                  Call("sampler.sample"), Call("energy_model"),
                  Call("energy_model"), Call("loss_function"),
                  Call("reduce_loss_dict")>>

\* a step of the pass that changes nothing but the position
Step(from, calls, to) ==
    /\ pc = from
    /\ log' = log \o calls
    /\ pc' = to
    /\ UNCHANGED <<cfg, batch, fwd, procs, outdir, print_first_grad, step_calls,
                   iteration, arguments, start_iter, enum_index,
                   requires_grad, training, base_optimizer, energy_optimizer,
                   base_scheduler, energy_scheduler, val_result, gathered,
                   saved, disk, restarts>>

\* lines 205-252: the forward pass, the two graphs, the sampler, the two
\* energies and the losses
Forward ==
    /\ pc = "forward"
    /\ \E t \in LoopTaskLosses, e \in LoopEnergyLosses :
          fwd' = ForwardValues(cfg.MODE, Losses(t, e))
    /\ log' = log \o ForwardCalls
    /\ pc' = "zero_grad"
    /\ UNCHANGED <<cfg, batch, procs, outdir, print_first_grad, step_calls,
                   iteration, arguments, start_iter, enum_index,
                   requires_grad, training, base_optimizer, energy_optimizer,
                   base_scheduler, energy_scheduler, val_result, gathered,
                   saved, disk, restarts>>

\* lines 257-258: base_optimizer.zero_grad(); energy_optimizer.zero_grad()
ZeroGrad == Step("zero_grad",
                 <<Call("base_optimizer.zero_grad"), Call("energy_optimizer.zero_grad")>>,
                 "backward")

\* the call amp.scale_loss(loss, optimizers)
ScaleLoss(loss, optimizers) ==
    [op |-> "amp.scale_loss", arg |-> Rat(loss, 1), optimizers |-> optimizers]

\* a mutant of BackwardCalls: each of the two losses is scaled for its own
\* optimizer and has its own backward pass
BackwardCallsSeparately(losses) ==
    <<ScaleLoss(losses.task_losses, <<"base_optimizer">>), Call("backward"),
      ScaleLoss(losses.energy_losses, <<"energy_optimizer">>), Call("backward")>>

\* lines 263-264: total_losses is scaled in one context of both optimizers,
\* and the scaled loss has its backward pass
BackwardCalls(losses) ==
    <<ScaleLoss(losses.total_losses, <<"base_optimizer", "energy_optimizer">>),
      Call("backward")>>

\* the calls a position makes, in order: those of lines 205-252 at the
\* forward pass, those of lines 263-264 at the backward pass
CallsAt(p) == IF p = "forward" THEN ForwardCalls ELSE BackwardCalls(fwd.losses)

\* the logs a position can leave when one of its calls raises: the calls
\* before the raising one were made, the raising one and those after it
\* were not
RaisedLogs(p) == {log \o SubSeq(CallsAt(p), 1, n) : n \in 0..(Len(CallsAt(p)) - 1)}

\* a mutant of Raise: the exception is caught in the loop, and the loop goes
\* on with the next batch
RaiseCaught ==
    /\ pc \in {"forward", "backward"}
    /\ log' \in RaisedLogs(pc)
    /\ pc' = "fetch"
    /\ UNCHANGED <<cfg, batch, fwd, procs, outdir, print_first_grad, step_calls,
                   iteration, arguments, start_iter, enum_index,
                   requires_grad, training, base_optimizer, energy_optimizer,
                   base_scheduler, energy_scheduler, val_result, gathered,
                   saved, disk, restarts>>

\* lines 205-252 and 263-264: an exception of a call of the forward or of
\* the backward pass is caught nowhere in train() and main(): the process
\* ends, with the calls before the raising one made
Raise ==
    /\ pc \in {"forward", "backward"}
    /\ log' \in RaisedLogs(pc)
    /\ pc' = "failed"
    /\ UNCHANGED <<cfg, batch, fwd, procs, outdir, print_first_grad, step_calls,
                   iteration, arguments, start_iter, enum_index,
                   requires_grad, training, base_optimizer, energy_optimizer,
                   base_scheduler, energy_scheduler, val_result, gathered,
                   saved, disk, restarts>>

\* lines 263-264
Backward == Step("backward", BackwardCalls(fwd.losses), "clip")

\* a mutant of Verbose: print_first_grad is not read
VerboseOnPeriodOnly(it, freq, first) == it % freq = 0

\* line 276: (iteration % cfg.SOLVER.PRINT_GRAD_FREQ) == 0 or print_first_grad
Verbose(it, freq, first) == (it % freq = 0) \/ first

\* lines 278-279: the parameters of mods with p.requires_grad; a parameter
\* is named by the module that holds it
ClipParams(grad, mods) == {m \in mods : grad[m]}

\* clip_grad_norm(params, cfg.SOLVER.GRAD_NORM_CLIP, logger=logger,
\* verbose=verbose, clip=True)
ClipGradNorm(op, params, verbose) ==
    [op |-> op, arg |-> Absent, params |-> params, verbose |-> verbose,
     clip |-> TRUE]

\* lines 276-279: verbose is computed and print_first_grad cleared; the
\* gradients of the energy model are clipped, then those of the detector
ClipGrad ==
    /\ pc = "clip"
    /\ LET verbose == Verbose(iteration, cfg.PRINT_GRAD_FREQ, print_first_grad)
       IN  log' = log \o
              <<ClipGradNorm("clip_grad_norm.energy_model",
                             ClipParams(requires_grad, {"energy_model"}), verbose),
                ClipGradNorm("clip_grad_norm.base_model",
                             ClipParams(requires_grad, BaseModules), verbose)>>
    /\ print_first_grad' = FALSE
    /\ pc' = "step"
    /\ UNCHANGED <<cfg, batch, fwd, procs, outdir, step_calls,
                   iteration, arguments, start_iter, enum_index,
                   requires_grad, training, base_optimizer, energy_optimizer,
                   base_scheduler, energy_scheduler, val_result, gathered,
                   saved, disk, restarts>>

\* lines 282-283: base_optimizer.step(); energy_optimizer.step()
OptimizerStep ==
    /\ pc = "step"
    /\ base_optimizer' = [base_optimizer EXCEPT !.steps = @ + 1]
    /\ energy_optimizer' = [energy_optimizer EXCEPT !.steps = @ + 1]
    /\ log' = log \o <<Call("base_optimizer.step"), Call("energy_optimizer.step")>>
    /\ step_calls' = Stepped(step_calls, "base_optimizer", "energy_optimizer")
    /\ pc' = "checkpoint"
    /\ UNCHANGED <<cfg, batch, fwd, procs, outdir, print_first_grad,
                   iteration, arguments, start_iter, enum_index,
                   requires_grad, training, base_scheduler, energy_scheduler,
                   val_result, gathered, saved, disk, restarts>>

\* a mutant of CheckpointDue: the enumerate index is tested, not the iteration
CheckpointDueIndex(it, period) == (it - 1) % period = 0

\* "iteration % checkpoint_period == 0"
CheckpointDue(it, period) == it % period = 0

\* a mutant of FinalDue: the enumerate index is compared, not the iteration
FinalDueIndex(it, max_iter) == it - 1 = max_iter

\* "iteration == max_iter", max_iter being the length of the training loader
FinalDue(it, max_iter) == it = max_iter

\* what checkpointer.save(name, **arguments) persists: the models (their
\* weights are not modelled), the optimizers and schedulers the checkpointer
\* was given, and the keys of arguments
Persisted(name) ==
    LET part(k, held, built) == IF checkpointer[k] THEN held ELSE built
    IN  [exists |-> TRUE, name |-> name,
         parts |-> ModelParts \cup {k \in DOMAIN checkpointer : checkpointer[k]},
         iteration |-> arguments.iteration,
         base_optimizer |-> part("base_optimizer", base_optimizer, NewOptimizer),
         energy_optimizer |-> part("energy_optimizer", energy_optimizer, NewOptimizer),
         base_scheduler |-> part("base_scheduler", base_scheduler, NewScheduler),
         energy_scheduler |-> part("energy_scheduler", energy_scheduler, NewScheduler)]

\* lines 315-316: the name of the periodic save of a pass, when one is due
PeriodicSave == IF CheckpointDue(iteration, cfg.CHECKPOINT_PERIOD)
                THEN <<PeriodicName(iteration)>> ELSE <<>>

\* a mutant of FinalSave: model_final is also saved in the pass the
\* development run stops in
FinalSaveAtStop ==
    IF FinalDue(iteration, cfg.MAX_ITER) \/ (cfg.DEV_RUN /\ iteration = DevRunStop)
    THEN <<FinalName>> ELSE <<>>

\* lines 317-318: the name of the final save of a pass, when it is due
FinalSave == IF FinalDue(iteration, cfg.MAX_ITER) THEN <<FinalName>> ELSE <<>>

\* the names of the saves of a pass, in order
SaveNames == PeriodicSave \o FinalSave

\* a mutant of Checkpoint: the energy scheduler is stepped before the
\* periodic save of the pass, and is persisted as stepped
CheckpointAfterSchedulerStep ==
    /\ pc = "checkpoint"
    /\ energy_scheduler' = IF PeriodicSave = <<>> THEN energy_scheduler
                           ELSE PlainStep(energy_scheduler)
    /\ step_calls' = IF PeriodicSave = <<>> THEN step_calls
                     ELSE [step_calls EXCEPT !.energy_scheduler = @ + 1]
    /\ saved' = saved \o [i \in 1..Len(PeriodicSave) |->
                            [name |-> PeriodicSave[i], iteration |-> arguments.iteration]]
    /\ log' = log \o (IF PeriodicSave = <<>> THEN <<>>
                      ELSE <<Call("energy_scheduler.step")>>)
                 \o [i \in 1..Len(PeriodicSave) |-> Call("checkpointer.save")]
    /\ disk' = IF PeriodicSave = <<>> THEN disk
               ELSE [Persisted(PeriodicSave[1])
                        EXCEPT !.energy_scheduler = energy_scheduler']
    /\ pc' = IF FinalSave = <<>> THEN "validate" ELSE "save_final"
    /\ UNCHANGED <<cfg, batch, fwd, procs, outdir, print_first_grad,
                   iteration, arguments, start_iter, enum_index,
                   requires_grad, training, base_optimizer, energy_optimizer,
                   base_scheduler, val_result, gathered, restarts>>

\* lines 315-316: the periodic save of the pass; when the final save of
\* line 318 is due too, the process stands before it
Checkpoint ==
    /\ pc = "checkpoint"
    /\ saved' = saved \o [i \in 1..Len(PeriodicSave) |->
                            [name |-> PeriodicSave[i], iteration |-> arguments.iteration]]
    /\ log' = log \o [i \in 1..Len(PeriodicSave) |-> Call("checkpointer.save")]
    /\ disk' = IF PeriodicSave = <<>> THEN disk ELSE Persisted(PeriodicSave[1])
    /\ pc' = IF FinalSave = <<>> THEN "validate" ELSE "save_final"
    /\ UNCHANGED <<cfg, batch, fwd, procs, outdir, print_first_grad, step_calls,
                   iteration, arguments, start_iter, enum_index,
                   requires_grad, training, base_optimizer, energy_optimizer,
                   base_scheduler, energy_scheduler, val_result, gathered,
                   restarts>>

\* lines 317-318: checkpointer.save("model_final", **arguments)
SaveFinal ==
    /\ pc = "save_final"
    /\ saved' = Append(saved, [name |-> FinalName, iteration |-> arguments.iteration])
    /\ log' = Append(log, Call("checkpointer.save"))
    /\ disk' = Persisted(FinalName)
    /\ pc' = "validate"
    /\ UNCHANGED <<cfg, batch, fwd, procs, outdir, print_first_grad, step_calls,
                   iteration, arguments, start_iter, enum_index,
                   requires_grad, training, base_optimizer, energy_optimizer,
                   base_scheduler, energy_scheduler, val_result, gathered,
                   restarts>>

\* a mutant of ValDue: SOLVER.TO_VAL is not read
ValDueIgnoresToVal(c, it) == it % c.VAL_PERIOD = 0

\* "cfg.SOLVER.TO_VAL and iteration % cfg.SOLVER.VAL_PERIOD == 0"
ValDue(c, it) == c.TO_VAL /\ it % c.VAL_PERIOD = 0

\* lines 320-326: val_result = None, and run_energy_val when it is due; the
\* inference routine leaves the models in evaluation mode
Validate ==
    /\ pc = "validate"
    /\ IF ValDue(cfg, iteration)
       THEN \E g \in LoopGathered :
               /\ gathered' = g
               /\ val_result' = RunEnergyValResult(g)
               /\ training' = ModuleEval(training, Modules)
               /\ log' = Append(log, CallWith("run_energy_val", val_result'))
       ELSE /\ val_result' = None
            /\ UNCHANGED <<gathered, training, log>>
    /\ pc' = "schedule"
    /\ UNCHANGED <<cfg, batch, fwd, procs, outdir, print_first_grad, step_calls,
                   iteration, arguments, start_iter, enum_index,
                   requires_grad, base_optimizer, energy_optimizer,
                   base_scheduler, energy_scheduler, saved, disk, restarts>>

\* a mutant of PlateauReached: the comparison is strict
PlateauReachedStrict(es, bs, max) == es.stage_count > max \/ bs.stage_count > max

\* line 338
PlateauReached(es, bs, max) == es.stage_count >= max \/ bs.stage_count >= max

\* a mutant of SchedulerStep: the detector scheduler is stepped before the
\* validation result is known, with None
SchedulerStepStale ==
    /\ pc = "schedule"
    /\ cfg.SCHEDULE_TYPE = PLATEAU
    /\ energy_scheduler' = PlateauStep(energy_scheduler, val_result, iteration)
    /\ base_scheduler' = PlateauStep(base_scheduler, None, iteration)
    /\ log' = log \o <<CallWith("energy_scheduler.step", val_result),
                        CallWith("base_scheduler.step", None)>>
    /\ pc' = IF PlateauReached(energy_scheduler', base_scheduler', cfg.MAX_DECAY_STEP)
             THEN "done" ELSE "dev_run"
    /\ step_calls' = Stepped(step_calls, "energy_scheduler", "base_scheduler")
    /\ UNCHANGED <<cfg, batch, fwd, procs, outdir, print_first_grad,
                   iteration, arguments, start_iter, enum_index,
                   requires_grad, training, base_optimizer, energy_optimizer,
                   val_result, gathered, saved, disk, restarts>>

\* lines 332-343: both schedulers step; under the plateau schedule they are
\* given val_result and the loop is left when a stage count has reached
\* MAX_DECAY_STEP
SchedulerStep ==
    /\ pc = "schedule"
    /\ IF cfg.SCHEDULE_TYPE = PLATEAU
       THEN /\ energy_scheduler' = PlateauStep(energy_scheduler, val_result, iteration)
            /\ base_scheduler' = PlateauStep(base_scheduler, val_result, iteration)
            /\ log' = log \o <<CallWith("energy_scheduler.step", val_result),
                                CallWith("base_scheduler.step", val_result)>>
            /\ pc' = IF PlateauReached(energy_scheduler', base_scheduler',
                                       cfg.MAX_DECAY_STEP)
                     THEN "done" ELSE "dev_run"
       ELSE /\ energy_scheduler' = PlainStep(energy_scheduler)
            /\ base_scheduler' = PlainStep(base_scheduler)
            /\ log' = log \o <<Call("energy_scheduler.step"),
                                Call("base_scheduler.step")>>
            /\ pc' = "dev_run"
    /\ step_calls' = Stepped(step_calls, "energy_scheduler", "base_scheduler")
    /\ UNCHANGED <<cfg, batch, fwd, procs, outdir, print_first_grad,
                   iteration, arguments, start_iter, enum_index,
                   requires_grad, training, base_optimizer, energy_optimizer,
                   val_result, gathered, saved, disk, restarts>>

\* a mutant of DevRunHit: the enumerate index is compared, not the iteration
DevRunHitIndex(c, it) == c.DEV_RUN /\ it - 1 = DevRunStop

\* "cfg.MODEL.DEV_RUN and iteration == 10"
DevRunHit(c, it) == c.DEV_RUN /\ it = DevRunStop

\* a mutant of DevRunCheck: the pass is run again on the batch it has, and no
\* further batch is fetched
DevRunCheckRepeats ==
    /\ pc = "dev_run"
    /\ pc' = IF DevRunHit(cfg, iteration) THEN "done" ELSE "train"
    /\ UNCHANGED <<cfg, batch, fwd, procs, outdir, print_first_grad, step_calls,
                   iteration, arguments, start_iter, enum_index,
                   requires_grad, training, base_optimizer, energy_optimizer,
                   base_scheduler, energy_scheduler, val_result, gathered, log,
                   saved, disk, restarts>>

\* lines 345-346
DevRunCheck ==
    /\ pc = "dev_run"
    /\ pc' = IF DevRunHit(cfg, iteration) THEN "done" ELSE "fetch"
    /\ UNCHANGED <<cfg, batch, fwd, procs, outdir, print_first_grad, step_calls,
                   iteration, arguments, start_iter, enum_index,
                   requires_grad, training, base_optimizer, energy_optimizer,
                   base_scheduler, energy_scheduler, val_result, gathered, log,
                   saved, disk, restarts>>

(* ------------------------------ restart -------------------------------- *)

\* a process that has left the loop, or was stopped on its way, is started
\* again with the same configuration and output directory; the models are
\* built anew, and fix_eval_modules has not yet run on them
Restart ==
    /\ pc \in {"load", "fetch", "train", "fix", "energy_train", "forward",
               "zero_grad", "backward", "clip", "step", "checkpoint",
               "save_final", "validate", "schedule", "dev_run", "done",
               "failed"}
    /\ restarts < MaxRestarts
    /\ restarts' = restarts + 1
    /\ requires_grad' \in {g \in BuiltGrads :
                              \A m \in Modules \ SeqRange(eval_modules) :
                                  g[m] = requires_grad[m]}
    /\ Constructed(pc', iteration', arguments', start_iter', enum_index',
                   training', base_optimizer', energy_optimizer',
                   base_scheduler', energy_scheduler', val_result', gathered',
                   log', saved')
    /\ batch' = NoBatch
    /\ fwd' = NoForward
    /\ print_first_grad' = TRUE
    /\ step_calls' = NoStepCalls
    /\ UNCHANGED <<cfg, procs, outdir, disk>>

Next ==
    \/ FixEvalModules
    \/ LoadCheckpoint
    \/ LoopHead
    \/ BaseModelTrain
    \/ EnergyModelTrain
    \/ Forward
    \/ Raise
    \/ ZeroGrad
    \/ Backward
    \/ ClipGrad
    \/ OptimizerStep
    \/ Checkpoint
    \/ SaveFinal
    \/ Validate
    \/ SchedulerStep
    \/ DevRunCheck
    \/ Restart

Spec == Init /\ [][Next]_vars

(* ------------------- run_energy_val as a function ---------------------- *)

\* the scalars a worker can report, in tenths: the sentinel -1, 0, 0.4, 0.8
ValScalars == {-10, 0, 4, 8}

\* the gathered lists of up to MaxWorkers workers
AllGathered == UNION {[1..n -> ValScalars] : n \in 1..MaxWorkers}

InitVal ==
    /\ cfg \in {c \in Configs : c.TO_VAL /\ c.SCHEDULE_TYPE = PLATEAU}
    /\ requires_grad = [m \in Modules |-> m \notin SeqRange(eval_modules)]
    /\ Constructed("setup", iteration, arguments, start_iter, enum_index, training,
                   base_optimizer, energy_optimizer, base_scheduler,
                   energy_scheduler, val_result, <<>>, log, saved)
    /\ pc = "run_energy_val"
    /\ gathered \in AllGathered
    /\ disk = NoCheckpoint
    /\ restarts = 0
    /\ batch = NoBatch
    /\ fwd = NoForward
    /\ procs = NoProcs
    /\ outdir = NoOutdir
    /\ print_first_grad = TRUE
    /\ step_calls = NoStepCalls

\* lines 418-425: the gathered scalars are filtered and averaged
RunEnergyVal ==
    /\ pc = "run_energy_val"
    /\ val_result' = RunEnergyValResult(gathered)
    /\ pc' = "returned"
    /\ UNCHANGED <<cfg, batch, fwd, procs, outdir, print_first_grad, step_calls,
                   iteration, arguments, start_iter, enum_index,
                   requires_grad, training, base_optimizer, energy_optimizer,
                   base_scheduler, energy_scheduler, gathered, log, saved, disk,
                   restarts>>

NextVal == RunEnergyVal

SpecVal == InitVal /\ [][NextVal]_vars

(* --------------------- the losses as a function ------------------------ *)

\* the two loss dictionaries line 205 and line 236 can return
InitLosses ==
    /\ cfg \in {c \in Configs : ~c.TO_VAL /\ ~c.DEV_RUN /\ c.SCHEDULE_TYPE = MULTISTEP
                                /\ c.CHECKPOINT_PERIOD = 2 /\ c.MAX_ITER = MaxIter}
    /\ requires_grad = [m \in Modules |-> m \notin SeqRange(eval_modules)]
    /\ Constructed("setup", iteration, arguments, start_iter, enum_index, training,
                   base_optimizer, energy_optimizer, base_scheduler,
                   energy_scheduler, val_result, gathered, log, saved)
    /\ pc = "losses"
    /\ disk = NoCheckpoint
    /\ restarts = 0
    /\ batch = NoBatch
    /\ \E t \in Dicts(TaskKeys), e \in Dicts(EnergyKeys) :
          fwd = [done |-> FALSE, task_loss_dict |-> t, energy_loss_dict |-> e]
    /\ procs = NoProcs
    /\ outdir = NoOutdir
    /\ print_first_grad = TRUE
    /\ step_calls = NoStepCalls

\* lines 239-242
ComputeLosses ==
    /\ pc = "losses"
    /\ fwd' = [done |-> TRUE,
               losses |-> Losses(fwd.task_loss_dict, fwd.energy_loss_dict)]
    /\ pc' = "merged"
    /\ UNCHANGED <<cfg, batch, procs, outdir, print_first_grad, step_calls,
                   iteration, arguments, start_iter, enum_index,
                   requires_grad, training, base_optimizer, energy_optimizer,
                   base_scheduler, energy_scheduler, val_result, gathered, log,
                   saved, disk, restarts>>

NextLosses == ComputeLosses

SpecLosses == InitLosses /\ [][NextLosses]_vars

(* --------------------------- a distributed run ------------------------- *)

\* the world size, and the ranks of its processes
NumRanks == 2
Ranks == 0..(NumRanks - 1)

\* the most validation datasets of a configuration
MaxValSets == 2

\* the variables of the one-process runs
mainvars == <<pc, iteration, arguments, start_iter, enum_index, requires_grad,
              training, base_optimizer, energy_optimizer, base_scheduler,
              energy_scheduler, val_result, gathered, log, saved, disk,
              restarts, batch, fwd, print_first_grad, step_calls>>

\* the folders run_test makes for the datasets of cfg.DATASETS.TEST, under
\* OUTPUT_DIR/inference
TestFolders == <<"mkdir:out/inference/test0", "mkdir:out/inference/test1">>

\* the configurations of the distributed runs, with len(cfg.DATASETS.VAL),
\* len(cfg.DATASETS.TEST) and the flag --skip-test; a key the run never
\* reads is held at one value, the validation before the training runs
\* with the short loader, and the test after it follows the runs without
\* validation
RankConfigs ==
    {c \in [SCHEDULE_TYPE : {PLATEAU, MULTISTEP},
            MAX_DECAY_STEP : 1..MaxDecay,
            TO_VAL : BOOLEAN,
            VAL_PERIOD : {2, 3},
            CHECKPOINT_PERIOD : {5},
            DEV_RUN : BOOLEAN,
            MAX_ITER : {MaxIter - 8, MaxIter},
            MODE : {"predcls"},
            VAL_DATASETS : 1..MaxValSets,
            PRE_VAL : BOOLEAN,
            SKIP_TEST : BOOLEAN,
            TEST_DATASETS : 1..Len(TestFolders)] :
        /\ c.SCHEDULE_TYPE = MULTISTEP => c.MAX_DECAY_STEP = 1
        /\ (~c.TO_VAL /\ ~c.PRE_VAL) => c.VAL_DATASETS = 1
        /\ ~c.TO_VAL => c.VAL_PERIOD = 2
        /\ c.PRE_VAL => (c.MAX_ITER = MaxIter - 8 /\ ~c.TO_VAL /\ ~c.DEV_RUN)
        /\ c.SKIP_TEST => c.TEST_DATASETS = 1
        /\ ~c.SKIP_TEST => (c.MAX_ITER = MaxIter - 8 /\ ~c.TO_VAL /\ ~c.DEV_RUN)}

\* a process of main() that has parsed its arguments (lines 493-518)
NewProc == [pc |-> "start", iteration |-> 0, arguments |-> [iteration |-> 0],
            enum_index |-> 0, energy_scheduler |-> NewScheduler,
            base_scheduler |-> NewScheduler, val_result |-> None,
            dataset_result |-> 0, datasets_done |-> 0, colls |-> <<>>,
            results |-> <<>>, folders_done |-> 0, tests_done |-> 0]

\* the positions at which a process is inside a collective operation
CollectivePcs == {"synchronize", "ddp_base_model", "ddp_energy_model",
                  "reduce_loss_dict", "all_reduce", "val_synchronize",
                  "all_gather", "test_synchronize"}

InitRanks ==
    /\ cfg \in RankConfigs
    /\ requires_grad = [m \in Modules |-> m \notin SeqRange(eval_modules)]
    /\ Constructed(pc, iteration, arguments, start_iter, enum_index, training,
                   base_optimizer, energy_optimizer, base_scheduler,
                   energy_scheduler, val_result, gathered, log, saved)
    /\ disk = NoCheckpoint
    /\ restarts = 0
    /\ batch = NoBatch
    /\ fwd = NoForward
    /\ procs = [r \in Ranks |-> NewProc]
    /\ outdir = NoOutdir
    /\ print_first_grad = TRUE
    /\ step_calls = NoStepCalls

\* a step of the process of rank r alone
RankStep(r, p, dir) ==
    /\ procs' = [procs EXCEPT ![r] = p]
    /\ outdir' = dir
    /\ UNCHANGED <<cfg, mainvars>>

\* a collective operation: it ends for all ranks at once, when each rank is
\* in it; after[r] is the process of rank r when it has left it
Collective(kind, after) ==
    /\ \A r \in Ranks : procs[r].pc = kind
    /\ procs' = after
    /\ UNCHANGED <<cfg, mainvars, outdir>>

\* lines 522-530: a distributed process joins the process group and enters
\* the barrier
RankInitProcessGroup(r) ==
    /\ procs[r].pc = "start"
    /\ RankStep(r, [procs[r] EXCEPT !.pc = "synchronize"], outdir)

\* line 530: synchronize()
Synchronize ==
    Collective("synchronize", [r \in Ranks |-> [procs[r] EXCEPT !.pc = "mkdir"]])

\* lines 536-538: mkdir(output_dir) of every rank; the rank that finds no
\* directory creates it
RankMkdir(r) ==
    /\ procs[r].pc = "mkdir"
    /\ RankStep(r, [procs[r] EXCEPT !.pc = "save_config"],
                IF outdir.exists THEN outdir
                ELSE [exists |-> TRUE,
                      writes |-> outdir.writes \cup {[rank |-> r, what |-> "mkdir"]}])

\* what save_config writes: the main process alone writes the file
SaveConfigWrites(r) == IF r = 0 THEN {[rank |-> r, what |-> "config.yml"]} ELSE {}

\* lines 567-570: save_config(cfg, output_config_path) of every rank; then
\* train() builds the models, optimizers and schedulers of the process
\* (lines 42-104) and enters the constructor of the distributed wrapper of
\* the detector (line 110)
RankSaveConfig(r) ==
    /\ procs[r].pc = "save_config"
    /\ RankStep(r, [procs[r] EXCEPT !.pc = "ddp_base_model"],
                [outdir EXCEPT !.writes = @ \cup SaveConfigWrites(r)])

\* lines 110-115: DistributedDataParallel(base_model, ...), in which the
\* ranks meet for the parameters of rank 0; then the constructor of the
\* wrapper of the energy model (line 116)
DdpBaseModel ==
    Collective("ddp_base_model",
               [r \in Ranks |-> [procs[r] EXCEPT !.pc = "ddp_energy_model"]])

\* lines 116-121: DistributedDataParallel(energy_model, ...)
DdpEnergyModel ==
    Collective("ddp_energy_model",
               [r \in Ranks |-> [procs[r] EXCEPT !.pc = "pre_val"]])

\* what energy_inference returns on rank r: the metric on the main process,
\* the sentinel -1 on the others (in tenths)
InferenceResults(r) == IF r = 0 THEN {2, 5} ELSE {-10}

\* no pass of the loop has begun: a collective operation of run_energy_val
\* belongs to the validation before the training
BeforeLoop(p) == p.iteration = 0

\* lines 130-175: the checkpointer finds no checkpoint in the output
\* directory of a first start; with SOLVER.PRE_VAL run_energy_val is
\* called, which begins with energy_inference on the first dataset
RankPreVal(r) ==
    /\ procs[r].pc = "pre_val"
    /\ IF cfg.PRE_VAL
       THEN \E m \in InferenceResults(r) :
               RankStep(r, [procs[r] EXCEPT !.dataset_result = m,
                                            !.results = <<m>>,
                                            !.datasets_done = 0,
                                            !.colls = Append(@, "synchronize"),
                                            !.pc = "val_synchronize"],
                        outdir)
       ELSE RankStep(r, [procs[r] EXCEPT !.pc = "fetch"], outdir)

\* lines 187-250: the next batch and its forward pass, up to the loss
\* reduction; or the end of the loop
RankFetch(r) ==
    /\ procs[r].pc = "fetch"
    /\ RankStep(r,
                IF procs[r].enum_index < cfg.MAX_ITER
                THEN [procs[r] EXCEPT !.iteration = procs[r].enum_index + 1,
                                      !.enum_index = @ + 1,
                                      !.arguments = [iteration |-> procs[r].enum_index + 1],
                                      !.colls = <<"reduce_loss_dict">>,
                                      !.pc = "reduce_loss_dict"]
                ELSE [procs[r] EXCEPT !.pc = "done"],
                outdir)

\* line 250: reduce_loss_dict(loss_dict)
ReduceLossDict ==
    Collective("reduce_loss_dict", [r \in Ranks |-> [procs[r] EXCEPT !.pc = "update"]])

\* a mutant of save_to_disk: every rank writes
SaveToDiskAnyRank(r) == TRUE

\* line 135: save_to_disk = get_rank() == 0
save_to_disk(r) == r = 0

\* whether lines 315-318 call checkpointer.save in the pass of iteration it
SaveDue(c, it) == CheckpointDue(it, c.CHECKPOINT_PERIOD) \/ FinalDue(it, c.MAX_ITER)

\* what a checkpointer built with save_to_disk writes on a save
CheckpointWrites(r, flag) == IF flag THEN {[rank |-> r, what |-> "checkpoint"]} ELSE {}

\* lines 252-264: the gradients are zeroed, the loss is scaled and
\* backward() is entered, in which the distributed wrappers of the two
\* models reduce the gradients over all ranks
RankUpdate(r) ==
    /\ procs[r].pc = "update"
    /\ RankStep(r, [procs[r] EXCEPT !.colls = Append(@, "all_reduce"),
                                    !.pc = "all_reduce"],
                outdir)

\* line 264: the gradient all-reduce inside backward()
AllReduce ==
    Collective("all_reduce", [r \in Ranks |-> [procs[r] EXCEPT !.pc = "checkpoint"]])

\* lines 276-318: the clipping, the optimizer steps and the saves
RankCheckpoint(r) ==
    /\ procs[r].pc = "checkpoint"
    /\ RankStep(r, [procs[r] EXCEPT !.pc = "validate"],
                IF SaveDue(cfg, procs[r].iteration)
                THEN [outdir EXCEPT !.writes = @ \cup CheckpointWrites(r, save_to_disk(r))]
                ELSE outdir)

\* lines 320-326 and 381-414: val_result = None; when validation is due,
\* energy_inference on the first dataset
RankValidate(r) ==
    /\ procs[r].pc = "validate"
    /\ IF ValDue(cfg, procs[r].iteration)
       THEN \E m \in InferenceResults(r) :
               RankStep(r, [procs[r] EXCEPT !.val_result = None,
                                            !.dataset_result = m,
                                            !.results = <<m>>,
                                            !.datasets_done = 0,
                                            !.colls = Append(@, "synchronize"),
                                            !.pc = "val_synchronize"],
                        outdir)
       ELSE RankStep(r, [procs[r] EXCEPT !.val_result = None, !.pc = "schedule"],
                     outdir)

\* line 415: synchronize() after a dataset; then the next dataset, or the
\* gather of line 418
ValSynchronize ==
    Collective("val_synchronize",
               [r \in Ranks |->
                   IF procs[r].datasets_done + 1 < cfg.VAL_DATASETS
                   THEN [procs[r] EXCEPT !.datasets_done = @ + 1,
                                         !.pc = "inference"]
                   ELSE [procs[r] EXCEPT !.datasets_done = @ + 1,
                                         !.colls = Append(@, "all_gather"),
                                         !.pc = "all_gather"]])

\* lines 381-414: energy_inference on a further dataset
RankInference(r) ==
    /\ procs[r].pc = "inference"
    /\ \E m \in InferenceResults(r) :
          RankStep(r, [procs[r] EXCEPT !.dataset_result = m,
                                       !.results = Append(@, m),
                                       !.colls = Append(@, "synchronize"),
                                       !.pc = "val_synchronize"],
                   outdir)

\* a mutant of all_gather: a rank is given its own scalar only
AllGatherOwnOnly(r, scalars) == <<scalars[r + 1]>>

\* line 418: all_gather gives every rank the scalars of all ranks, by rank
all_gather(r, scalars) == scalars

\* a mutant of Contribution: a rank contributes the mean of the results of
\* all its datasets, rounded down
ContributionOfAll(p) == SeqSum(p.results) \div Len(p.results)

\* line 418: torch.tensor(dataset_result), what a rank hands to all_gather:
\* dataset_result as the last turn of the loop of line 381 left it
Contribution(p) == p.dataset_result

\* lines 418-425: the gather, and the mean of the valid entries; line 175
\* drops what the validation before the training returns, line 323 assigns
\* what the validation of a pass returns to val_result
AllGather ==
    Collective("all_gather",
               [r \in Ranks |->
                   LET scalars == [i \in 1..NumRanks |-> Contribution(procs[i - 1])]
                   IN  IF BeforeLoop(procs[r])
                       THEN [procs[r] EXCEPT !.pc = "fetch"]
                       ELSE [procs[r] EXCEPT
                               !.val_result = RunEnergyValResult(all_gather(r, scalars)),
                               !.pc = "schedule"]])

\* lines 332-346: the scheduler steps, the plateau stop and the stop of a
\* development run
RankSchedule(r) ==
    /\ procs[r].pc = "schedule"
    /\ LET p  == procs[r]
           es == IF cfg.SCHEDULE_TYPE = PLATEAU
                 THEN PlateauStep(p.energy_scheduler, p.val_result, p.iteration)
                 ELSE PlainStep(p.energy_scheduler)
           bs == IF cfg.SCHEDULE_TYPE = PLATEAU
                 THEN PlateauStep(p.base_scheduler, p.val_result, p.iteration)
                 ELSE PlainStep(p.base_scheduler)
           stop == \/ /\ cfg.SCHEDULE_TYPE = PLATEAU
                      /\ PlateauReached(es, bs, cfg.MAX_DECAY_STEP)
                   \/ DevRunHit(cfg, p.iteration)
       IN  RankStep(r, [p EXCEPT !.energy_scheduler = es,
                                 !.base_scheduler = bs,
                                 !.pc = IF stop THEN "done" ELSE "fetch"],
                    outdir)

\* lines 448-451: mkdir(output_folder) for the i-th test dataset, called by
\* rank r; a folder that exists is left as it is, one that does not is made
\* by the rank that calls
TestMkdir(r, writes, i) ==
    IF \E w \in writes : w.what = TestFolders[i]
    THEN writes
    ELSE writes \cup {[rank |-> r, what |-> TestFolders[i]]}

\* a process that has made the call of mkdir for the i-th test dataset: it
\* stands before the call for the next dataset, or, after the last one,
\* lines 453-492 build the loaders and run energy_inference on the first
\* test dataset, and the process enters synchronize() (line 492)
AfterTestMkdir(p, i) ==
    IF i < cfg.TEST_DATASETS
    THEN [p EXCEPT !.folders_done = i, !.pc = "test_mkdir"]
    ELSE [p EXCEPT !.folders_done = i,
                   !.tests_done = 0,
                   !.colls = <<"synchronize">>,
                   !.pc = "test_synchronize"]

\* lines 573-576 and 427-451: train() has returned; without --skip-test
\* run_test is called and calls mkdir for the first test dataset
RankRunTest(r) ==
    /\ procs[r].pc = "done"
    /\ IF cfg.SKIP_TEST
       THEN RankStep(r, [procs[r] EXCEPT !.pc = "exit"], outdir)
       ELSE RankStep(r, AfterTestMkdir(procs[r], 1),
                     [outdir EXCEPT !.writes = TestMkdir(r, @, 1)])

\* lines 448-451: the next turn of the loop over the test datasets, one call
\* of mkdir
RankTestMkdir(r) ==
    /\ procs[r].pc = "test_mkdir"
    /\ RankStep(r, AfterTestMkdir(procs[r], procs[r].folders_done + 1),
                [outdir EXCEPT
                    !.writes = TestMkdir(r, @, procs[r].folders_done + 1)])

\* line 492: synchronize() after a test dataset; then the next dataset, or
\* the end of main()
TestSynchronize ==
    Collective("test_synchronize",
               [r \in Ranks |->
                   [procs[r] EXCEPT !.tests_done = @ + 1,
                                    !.pc = IF procs[r].tests_done + 1 < cfg.TEST_DATASETS
                                           THEN "test_inference" ELSE "exit"]])

\* lines 451-491: energy_inference on a further test dataset
RankTestInference(r) ==
    /\ procs[r].pc = "test_inference"
    /\ RankStep(r, [procs[r] EXCEPT !.colls = Append(@, "synchronize"),
                                    !.pc = "test_synchronize"],
                outdir)

NextRanks ==
    \/ \E r \in Ranks : RankInitProcessGroup(r)
    \/ Synchronize
    \/ \E r \in Ranks : RankMkdir(r)
    \/ \E r \in Ranks : RankSaveConfig(r)
    \/ DdpBaseModel
    \/ DdpEnergyModel
    \/ \E r \in Ranks : RankPreVal(r)
    \/ \E r \in Ranks : RankFetch(r)
    \/ ReduceLossDict
    \/ \E r \in Ranks : RankUpdate(r)
    \/ AllReduce
    \/ \E r \in Ranks : RankCheckpoint(r)
    \/ \E r \in Ranks : RankValidate(r)
    \/ ValSynchronize
    \/ \E r \in Ranks : RankInference(r)
    \/ AllGather
    \/ \E r \in Ranks : RankSchedule(r)
    \/ \E r \in Ranks : RankRunTest(r)
    \/ \E r \in Ranks : RankTestMkdir(r)
    \/ TestSynchronize
    \/ \E r \in Ranks : RankTestInference(r)

SpecRanks == InitRanks /\ [][NextRanks]_vars

(* ============================== claims ================================= *)

Frozen == SeqRange(eval_modules)

Ops(l) == {l[i].op : i \in 1..Len(l)}

\* a loop pass of this process has run to its end
PassEnded == pc \in {"fetch", "done"} /\ enum_index > start_iter

StageReached ==
    \/ energy_scheduler.stage_count >= cfg.MAX_DECAY_STEP
    \/ base_scheduler.stage_count >= cfg.MAX_DECAY_STEP


\* C1: under the plateau schedule, when after the scheduler steps of a pass
\* the stage count of the energy scheduler or of the detector scheduler has
\* reached MAX_DECAY_STEP, the loop is left at once, whatever max_iter is, and
\* a loop that was left fetches no further batch.
C1_PlateauStops ==
    [][/\ (pc = "schedule" /\ cfg.SCHEDULE_TYPE = PLATEAU /\ StageReached')
              => pc' = "done"
       /\ pc = "done" => (pc' = "setup" \/ (pc' = "done" /\ enum_index' = enum_index))]_vars

\* the loop was left by the plateau stop before max_iter
C1_Witness ==
    /\ cfg.SCHEDULE_TYPE = PLATEAU
    /\ StageReached
    /\ pc = "done"
    /\ iteration < cfg.MAX_ITER
    /\ Ops(log) \cap {"energy_scheduler.step", "base_scheduler.step"} # {}

\* C2 as stated: with DEV_RUN set, whatever the starting iteration and
\* max_iter, no pass with iteration > 10 is executed and the loop is left
\* after the pass with iteration = 10 (stated for the schedules that have no
\* plateau stop).
C2_Original ==
    (cfg.DEV_RUN /\ cfg.SCHEDULE_TYPE = MULTISTEP) =>
        /\ iteration <= DevRunStop
        /\ pc = "done" => iteration = DevRunStop

\* C2, amended: with DEV_RUN set, a pass with iteration = 10 is the last pass
\* of its process (the loop is left right after it, before another batch is
\* fetched), and a process that started below 10 never executes a pass with
\* iteration > 10.
C2_DevRunStops ==
    cfg.DEV_RUN =>
        /\ iteration = DevRunStop => pc # "fetch"
        /\ start_iter < DevRunStop => iteration <= DevRunStop

\* the development run has stopped the loop after iteration 10, before max_iter
C2_Witness ==
    /\ cfg.DEV_RUN
    /\ pc = "done"
    /\ iteration = DevRunStop
    /\ cfg.MAX_ITER > DevRunStop
    /\ ~(cfg.SCHEDULE_TYPE = PLATEAU /\ StageReached)

\* C3: within a process arguments["iteration"] grows by exactly one at each
\* loop head that starts a pass and changes at no other step of the loop
\* (resumed runs included), and every periodic save carries in its name
\* model_<7 digits> the iteration it persists.
C3_IterationCounter ==
    [][/\ (pc = "fetch" /\ pc' = "train") =>
              /\ arguments'.iteration = arguments.iteration + 1
              /\ arguments'.iteration = iteration'
       /\ (pc \notin {"fetch", "load"} /\ pc' # "setup") => arguments' = arguments
       /\ \A i \in 1..Len(saved') :
              saved'[i].name # FinalName =>
                  /\ Len(saved'[i].name) = NameWidth + 1
                  /\ EmbeddedCounter(saved'[i].name) = saved'[i].iteration]_vars

\* a resumed process has made a periodic save
C3_Witness ==
    /\ start_iter > 0
    /\ \E i \in 1..Len(saved) :
           /\ saved[i].name # FinalName
           /\ saved[i].iteration = start_iter + 2

\* C4: from the first call of fix_eval_modules on, so at every forward pass,
\* backward pass and optimizer step, no parameter of backbone, rpn and
\* roi_heads.box has requires_grad set, whatever the flags of the built model
\* were and however often train() was called.
C4_FrozenStayFrozen ==
    pc # "setup" => \A m \in Frozen : ~requires_grad[m]

\* an optimizer step of a later pass, after train() and validation, with a
\* trainable relation head
C4_Witness ==
    /\ pc = "step"
    /\ enum_index > start_iter + 2
    /\ requires_grad["roi_heads.relation"]
    /\ \A m \in Frozen : ~requires_grad[m] /\ training[m]

\* C5: a call of fix_eval_modules changes no training flag and no gradient
\* flag of a module outside eval_modules; the call of the loop, which follows
\* base_model.train(), leaves the frozen modules in training mode.
C5_FreezeFrame ==
    [][(pc \in {"setup", "fix"} /\ pc' # "setup") =>
           /\ training' = training
           /\ \A m \in Modules \ Frozen : requires_grad'[m] = requires_grad[m]
           /\ pc = "fix" => \A m \in Frozen : training'[m]]_vars

\* after a validation left the models in evaluation mode: train() and
\* fix_eval_modules have run, the frozen modules are in training mode and
\* the relation head is still trainable
C5_Witness ==
    /\ pc = "energy_train"
    /\ ~training["energy_model"]
    /\ \A m \in Frozen : training[m] /\ ~requires_grad[m]
    /\ requires_grad["roi_heads.relation"]

\* the indices of the gathered entries that are kept
KeptIndices == {i \in 1..Len(gathered) : gathered[i] >= 0}

RECURSIVE SumAt(_)
SumAt(I) == IF I = {} THEN 0
            ELSE LET i == CHOOSE j \in I : TRUE IN gathered[i] + SumAt(I \ {i})

\* C6: the scalar run_energy_val returns is the mean of exactly the gathered
\* entries that are >= 0, zeros included and negative entries dropped (nan
\* when no entry is kept); for [-1, 0.4, -1, 0.8] it is 0.6.
C6_ValidationMean ==
    pc = "returned" =>
        /\ KeptIndices # {} =>
              /\ val_result.kind = "num"
              /\ val_result.num * Cardinality(KeptIndices)
                     = SumAt(KeptIndices) * val_result.den
        /\ KeptIndices = {} => val_result = NaN
        /\ gathered = <<-10, 4, -10, 8>> => val_result = Rat(6, 1)

\* the example of the specification has been averaged
C6_Witness ==
    /\ pc = "returned"
    /\ gathered = <<-10, 4, -10, 8>>
    /\ val_result = [kind |-> "num", num |-> 6, den |-> 1]

\* the positions of the optimizer steps and of the scheduler steps of a pass
OptimizerSteps(l) == Positions(l, "base_optimizer.step")
                         \cup Positions(l, "energy_optimizer.step")
SchedulerSteps(l) == Positions(l, "energy_scheduler.step")
                         \cup Positions(l, "base_scheduler.step")

\* C7: in every pass each scheduler is stepped exactly once, after both
\* optimizers have stepped in that pass; under the plateau schedule a
\* scheduler step of a pass in which validation ran comes after the
\* validation and is given the result of that validation.
C7_SchedulerOrdering ==
    /\ \A op \in {"energy_scheduler.step", "base_scheduler.step"} :
           /\ Cardinality(Positions(log, op)) <= 1
           /\ (PassEnded \/ pc = "dev_run") => Cardinality(Positions(log, op)) = 1
    /\ \A i \in SchedulerSteps(log) :
           /\ Cardinality(Positions(log, "base_optimizer.step")) = 1
           /\ Cardinality(Positions(log, "energy_optimizer.step")) = 1
           /\ \A j \in OptimizerSteps(log) : j < i
           /\ cfg.SCHEDULE_TYPE = PLATEAU =>
                  \A v \in Positions(log, "run_energy_val") :
                      v < i /\ log[i].arg = log[v].arg /\ log[i].arg = val_result

\* under the plateau schedule both schedulers were stepped with the result of
\* the validation of the same pass
C7_Witness ==
    /\ cfg.SCHEDULE_TYPE = PLATEAU
    /\ pc = "dev_run"
    /\ Positions(log, "run_energy_val") # {}
    /\ Cardinality(SchedulerSteps(log)) = 2
    /\ \A i \in SchedulerSteps(log) : log[i].arg.kind = "num"

\* the validation step of the pass is behind
AfterValidate == pc \in {"schedule", "dev_run"} \/ PassEnded

\* C8: validation runs in a pass exactly when SOLVER.TO_VAL is set and
\* iteration is a multiple of VAL_PERIOD (and then once); in every other pass
\* val_result is None and None is what the plateau schedulers are given.
C8_ValidationSignal ==
    AfterValidate =>
        /\ Cardinality(Positions(log, "run_energy_val"))
               = IF cfg.TO_VAL /\ iteration % cfg.VAL_PERIOD = 0 THEN 1 ELSE 0
        /\ Positions(log, "run_energy_val") = {} =>
               /\ val_result = None
               /\ cfg.SCHEDULE_TYPE = PLATEAU =>
                      \A i \in SchedulerSteps(log) : log[i].arg = None

\* a pass without validation that follows a pass with validation: the
\* schedulers were given None
C8_Witness ==
    /\ cfg.SCHEDULE_TYPE = PLATEAU
    /\ cfg.TO_VAL
    /\ pc = "dev_run"
    /\ iteration > cfg.VAL_PERIOD
    /\ iteration % cfg.VAL_PERIOD # 0
    /\ energy_scheduler.best.kind = "num"
    /\ \A i \in SchedulerSteps(log) : log[i].arg = None

\* the checkpoint step of the pass is behind
AfterCheckpoint == pc = "validate" \/ AfterValidate

\* C9: in the pass with iteration = max_iter, the final iteration of the
\* training, checkpointer.save is called with the name model_final and the
\* arguments of that iteration, as the last save of the pass.
C9_FinalCheckpoint ==
    (AfterCheckpoint /\ iteration = cfg.MAX_ITER) =>
        /\ saved # <<>>
        /\ saved[Len(saved)] = [name |-> FinalName, iteration |-> cfg.MAX_ITER]

\* the loop has ended with the pass of iteration max_iter
C9_Witness ==
    /\ pc = "done"
    /\ PassEnded
    /\ iteration = cfg.MAX_ITER
    /\ saved[Len(saved)].name = FinalName

\* C10: in every executed pass a checkpoint model_<iteration> is saved
\* exactly when iteration is a multiple of CHECKPOINT_PERIOD, once, and every
\* save of a pass comes after both optimizer steps of that pass; so also in
\* the pass after which the loop stops early.
C10_PeriodicCheckpoint ==
    /\ AfterCheckpoint =>
           Cardinality({i \in 1..Len(saved) : saved[i].name # FinalName})
               = IF iteration % cfg.CHECKPOINT_PERIOD = 0 THEN 1 ELSE 0
    /\ \A i \in 1..Len(saved) :
           saved[i].name # FinalName =>
               /\ EmbeddedCounter(saved[i].name) = iteration
               /\ iteration % cfg.CHECKPOINT_PERIOD = 0
    /\ Cardinality(Positions(log, "checkpointer.save")) = Len(saved)
    /\ \A i \in Positions(log, "checkpointer.save") :
           /\ Cardinality(OptimizerSteps(log)) = 2
           /\ \A j \in OptimizerSteps(log) : j < i

\* the loop stopped early in a pass that made its periodic save
C10_Witness ==
    /\ pc = "done"
    /\ PassEnded
    /\ iteration < cfg.MAX_ITER
    /\ iteration % cfg.CHECKPOINT_PERIOD = 0
    /\ Len(saved) = 1
    /\ saved[1].name = PeriodicName(iteration)

(* ------------------------------------------------------------------------ *)
\* C11, as it is stated: in a distributed run rank zero alone creates or
\* writes anything in the output directory (the directory itself, the saved
\* configuration, the checkpoints), and rank zero alone changes the
\* iteration counter.
C11_Original ==
    /\ \A w \in outdir.writes : w.rank = 0
    /\ \A r \in DOMAIN procs : r # 0 => procs[r].arguments.iteration = 0

\* C11: in a distributed run the checkpoints and the saved configuration are
\* written by rank zero alone; the output directory, and after the training
\* each output folder of the test, is created once, by whichever rank calls
\* mkdir first; every rank keeps its own iteration counter and sets it to
\* the iteration of its own loop pass.
C11_SingleCheckpointWriter ==
    /\ \A w \in outdir.writes : w.what \in {"checkpoint", "config.yml"} => w.rank = 0
    /\ Cardinality({w \in outdir.writes : w.what = "mkdir"}) <= 1
    /\ \A i \in 1..Len(TestFolders) :
          /\ Cardinality({w \in outdir.writes : w.what = TestFolders[i]}) <= 1
          /\ (\E w \in outdir.writes : w.what = TestFolders[i]) =>
                (~cfg.SKIP_TEST /\ i <= cfg.TEST_DATASETS)
    /\ \A r \in DOMAIN procs : procs[r].arguments.iteration = procs[r].iteration

\* a checkpoint was written, in a directory a rank other than zero created;
\* that rank has advanced its own counter, and after the training rank zero
\* has made the output folder of the first test dataset and that rank the
\* folder of the second
C11_Witness ==
    /\ [rank |-> 0, what |-> "checkpoint"] \in outdir.writes
    /\ [rank |-> 0, what |-> TestFolders[1]] \in outdir.writes
    /\ \E r \in DOMAIN procs :
          /\ r # 0
          /\ [rank |-> r, what |-> "mkdir"] \in outdir.writes
          /\ [rank |-> r, what |-> TestFolders[2]] \in outdir.writes
          /\ procs[r].arguments.iteration = cfg.MAX_ITER

(* ------------------------------------------------------------------------ *)
AtCollective(r) == procs[r].pc \in CollectivePcs

IsPrefix(a, b) == Len(a) <= Len(b) /\ \A i \in 1..Len(a) : a[i] = b[i]

\* the positions between the loop and the first barrier of run_test
LeftLoop == {"done", "test_mkdir"}

\* the positions of run_test from its first barrier on, and the end of main()
TestPcs == {"test_synchronize", "test_inference", "exit"}

\* the part of main() a process is in: before the loop, in it, after it
Phase(p) == IF p.pc \in TestPcs THEN 2 ELSE IF BeforeLoop(p) THEN 0 ELSE 1

\* the collective operations of a validation round: one barrier per dataset
\* and one gather
ValCollectives(c) == [i \in 1..c.VAL_DATASETS |-> "synchronize"] \o <<"all_gather">>

\* the collective calls before the loop: those of the validation before
\* the training
StartCollectives(c) == IF c.PRE_VAL THEN ValCollectives(c) ELSE <<>>

\* the collective operations of the pass of iteration it: the loss
\* reduction, the gradient reduction, and a validation round when one is due
PassCollectives(c, it) ==
    <<"reduce_loss_dict", "all_reduce">>
    \o (IF ValDue(c, it) THEN ValCollectives(c) ELSE <<>>)

\* the collective operations of run_test: one barrier per test dataset
TestCollectives(c) == [i \in 1..c.TEST_DATASETS |-> "synchronize"]

\* C12: ranks that run the same configuration over the same number of
\* batches enter the same collective operations in the same order (before
\* the loop those of the wrapper constructors and of a validation before the
\* training; per pass the loss reduction, the gradient reduction, and per
\* validation round one barrier after each dataset and then one gather;
\* after the loop one barrier per test dataset). A rank in a collective
\* operation is never ahead of a rank that has ended, has left the loop or
\* is in a later pass, so none waits for a rank that does not come; and all
\* ranks leave the loop after the same iteration, on a plateau stop and on a
\* development-run stop too.
C12_Lockstep ==
    \A r \in DOMAIN procs, s \in DOMAIN procs :
        /\ (AtCollective(r) /\ AtCollective(s)) =>
               /\ procs[r].pc = procs[s].pc
               /\ procs[r].iteration = procs[s].iteration
               /\ procs[r].colls = procs[s].colls
        /\ AtCollective(r) =>
               /\ procs[s].pc # "exit"
               /\ procs[s].pc \in LeftLoop => Phase(procs[r]) = 2
               /\ Phase(procs[s]) <= Phase(procs[r])
               /\ Phase(procs[s]) = Phase(procs[r]) =>
                     /\ procs[s].iteration <= procs[r].iteration
                     /\ procs[s].iteration = procs[r].iteration =>
                           IsPrefix(procs[s].colls, procs[r].colls)
        /\ (Phase(procs[r]) = Phase(procs[s])
              /\ procs[r].iteration = procs[s].iteration) =>
               IsPrefix(procs[r].colls, procs[s].colls)
                   \/ IsPrefix(procs[s].colls, procs[r].colls)
        /\ (procs[r].pc = "fetch" /\ BeforeLoop(procs[r])) =>
               procs[r].colls = StartCollectives(cfg)
        /\ procs[r].pc = "schedule" =>
               procs[r].colls = PassCollectives(cfg, procs[r].iteration)
        /\ (procs[r].pc = "exit" /\ ~cfg.SKIP_TEST) =>
               procs[r].colls = TestCollectives(cfg)
        /\ (procs[r].pc \in TestPcs \cup LeftLoop
              /\ procs[s].pc \in TestPcs \cup LeftLoop) =>
               procs[r].iteration = procs[s].iteration

\* all ranks have left the loop on a plateau stop, after a validation round
\* over two datasets
C12_Witness ==
    /\ procs # NoProcs
    /\ cfg.SCHEDULE_TYPE = PLATEAU
    /\ cfg.VAL_DATASETS = 2
    /\ \A r \in DOMAIN procs :
          /\ procs[r].pc = "done"
          /\ procs[r].iteration < cfg.MAX_ITER
          /\ ~DevRunHit(cfg, procs[r].iteration)
          /\ procs[r].colls = <<"reduce_loss_dict", "all_reduce", "synchronize",
                                 "synchronize", "all_gather">>

(* ------------------------------------------------------------------------ *)
\* C13: the merged loss dictionary has every key of the task-loss and of the
\* energy-loss dictionary, each with the value it has in its source, and no
\* other key; the sum of its values is the optimized objective, the sum of
\* the task losses plus the sum of the energy losses.
C13_LossMerging ==
    (pc = "merged" /\ fwd.done) =>
        LET l == fwd.losses
        IN  /\ DOMAIN l.loss_dict = DOMAIN l.task_loss_dict \cup DOMAIN l.energy_loss_dict
            /\ \A k \in DOMAIN l.task_loss_dict : l.loss_dict[k] = l.task_loss_dict[k]
            /\ \A k \in DOMAIN l.energy_loss_dict : l.loss_dict[k] = l.energy_loss_dict[k]
            /\ l.total_losses = DictSum(l.task_loss_dict) + DictSum(l.energy_loss_dict)
            /\ DictSum(l.loss_dict) = l.total_losses

\* two task losses and two energy losses, all different from zero, were merged
C13_Witness ==
    /\ pc = "merged"
    /\ fwd.done
    /\ DOMAIN fwd.losses.task_loss_dict = TaskKeys
    /\ DOMAIN fwd.losses.energy_loss_dict = EnergyKeys
    /\ \A k \in DOMAIN fwd.losses.loss_dict : fwd.losses.loss_dict[k] > 0
    /\ fwd.losses.total_losses = 6

(* ------------------------------------------------------------------------ *)
\* the loop was left by a break: the plateau stop or the development-run stop
EarlyStop ==
    \/ cfg.SCHEDULE_TYPE = PLATEAU /\ StageReached
    \/ DevRunHit(cfg, iteration)

\* the positions of a process, the last first
PcOrder == <<"done", "fetch", "dev_run", "schedule", "validate", "save_final",
             "checkpoint", "step", "clip", "backward", "zero_grad", "forward", "energy_train",
             "fix", "train", "load", "setup">>

\* how many positions are left after position p
Left(p) == IF p \in {"done", "failed"} THEN 0
           ELSE (CHOOSE i \in 1..Len(PcOrder) : PcOrder[i] = p) - 1

\* a number every step of a process makes smaller: the batches the loader
\* still has, and the positions left in the pass
Variant ==
    (cfg.MAX_ITER - (IF pc \in {"setup", "load"} THEN 0 ELSE enum_index)) * Len(PcOrder)
        + Left(pc)

\* a pass that has reached its saves has made one cycle: one forward pass,
\* one backward pass, one step of each optimizer
OneCycle ==
    /\ AfterCheckpoint =>
           /\ Cardinality(Positions(log, "base_model")) = 1
           /\ Cardinality(Positions(log, "backward")) = 1
           /\ Cardinality(Positions(log, "base_optimizer.step")) = 1
           /\ Cardinality(Positions(log, "energy_optimizer.step")) = 1
    /\ PassEnded => base_optimizer.steps = enum_index - start_iter

\* the steps of a process never end before the loop is left, and each makes
\* Variant smaller; Variant is never negative
Terminates ==
    /\ [](Variant >= 0)
    /\ [](pc \notin {"done", "failed"} => ENABLED (Next /\ restarts' = restarts))
    /\ [][restarts' = restarts => Variant' < Variant]_vars

\* C14, as it is stated: one cycle per consumed batch; a process whose loop
\* no break has ended has consumed max_iter batches, and its last pass has
\* iteration = max_iter; the loop always terminates.
C14_Original ==
    /\ [](OneCycle)
    /\ []((pc = "done" /\ ~EarlyStop) =>
             /\ enum_index - start_iter = cfg.MAX_ITER
             /\ iteration = cfg.MAX_ITER)
    /\ Terminates

\* C14: one cycle per consumed batch; a process whose loop no break has ended
\* has consumed max_iter - start_iter batches, start_iter being the iteration
\* of the checkpoint it resumed from (0 on a first start), and its last pass,
\* if it had one, has iteration = max_iter; the loop always terminates.
C14_CyclesAndTermination ==
    /\ [](OneCycle)
    /\ []((pc = "done" /\ ~EarlyStop) =>
             /\ enum_index - start_iter = cfg.MAX_ITER - start_iter
             /\ PassEnded => iteration = cfg.MAX_ITER)
    /\ Terminates

\* a resumed process has run the loop to its end: fewer than max_iter
\* batches, the last with iteration = max_iter
C14_Witness ==
    /\ pc = "done"
    /\ ~EarlyStop
    /\ restarts > 0
    /\ start_iter > 0
    /\ PassEnded
    /\ iteration = cfg.MAX_ITER
    /\ base_optimizer.steps = cfg.MAX_ITER - start_iter
    /\ base_optimizer.steps < cfg.MAX_ITER

(* ------------------------------------------------------------------------ *)
\* the process is in a loop pass, or has ended one
InPass == pc \in {"train", "fix", "energy_train", "forward", "zero_grad",
                  "backward", "clip", "step", "checkpoint", "save_final",
                  "validate",
                  "schedule", "dev_run", "failed"}
          \/ PassEnded

\* C15: a process that finds a checkpoint at its start takes its iteration
\* counter from it, and its first loop pass has the persisted iteration + 1;
\* one that finds none starts with iteration 1. The iteration of every pass
\* of a process is above the counter the process started from and never
\* below the counter of the last checkpoint, which never decreases, over
\* any stops and restarts.
C15_Resume ==
    /\ [][(pc = "load" /\ pc' = "fetch") =>
             /\ start_iter' = (IF disk.exists THEN disk.iteration ELSE 0)
             /\ arguments'.iteration = start_iter'
             /\ enum_index' = start_iter']_vars
    /\ [][(pc = "fetch" /\ pc' = "train" /\ enum_index = start_iter) =>
             iteration' = (IF disk.exists THEN disk.iteration + 1 ELSE 1)]_vars
    /\ [][disk'.iteration >= disk.iteration]_vars
    /\ [](InPass => (iteration > start_iter /\ iteration >= disk.iteration))

\* the first pass of a restarted process, one above the persisted counter
C15_Witness ==
    /\ restarts > 0
    /\ disk.exists
    /\ disk.iteration > 0
    /\ pc = "train"
    /\ start_iter = disk.iteration
    /\ enum_index = start_iter + 1
    /\ iteration = disk.iteration + 1

CycleOps == {"base_model", "backward", "base_optimizer.step",
             "energy_optimizer.step", "energy_scheduler.step",
             "base_scheduler.step"}

\* C17: a batch with a target that has no annotated entity is logged as an
\* error and has its pass like any other batch: the loop head goes on to the
\* pass and advances the iteration counter by one, the pass makes the
\* forward and backward pass, both optimizer steps and both scheduler steps,
\* and its saves and its validation happen when they are due.
C17_EmptyTargetsNotFatal ==
    /\ [][(pc = "fetch" /\ LoaderHasNext /\ restarts' = restarts) =>
             /\ pc' = "train"
             /\ iteration' = enum_index + 1
             /\ arguments'.iteration = iteration'
             /\ AnyEmptyTarget(batch') <=> log' = <<Call("logger.error")>>]_vars
    /\ []((AnyEmptyTarget(batch) /\ InPass) =>
             /\ log # <<>>
             /\ log[1] = Call("logger.error")
             /\ Cardinality(Positions(log, "logger.error")) = 1)
    /\ []((AnyEmptyTarget(batch) /\ (pc = "dev_run" \/ PassEnded)) =>
             /\ CycleOps \subseteq Ops(log)
             /\ Len(saved) = Len(SaveNames)
             /\ Cardinality(Positions(log, "run_energy_val"))
                    = IF ValDue(cfg, iteration) THEN 1 ELSE 0)

\* the pass of a batch with an empty target has ended, with a save and a
\* validation, and the loop goes on
C17_Witness ==
    /\ AnyEmptyTarget(batch)
    /\ pc = "fetch"
    /\ PassEnded
    /\ LoaderHasNext
    /\ log[1] = Call("logger.error")
    /\ CycleOps \subseteq Ops(log)
    /\ saved # <<>>
    /\ "run_energy_val" \in Ops(log)

(* ------------------------------------------------------------------------ *)
\* the forward or the backward pass of this step has failed: the process
\* leaves its position with not all the calls of that position made
Fails == /\ pc \in {"forward", "backward"}
         /\ pc' # pc
         /\ restarts' = restarts
         /\ Len(log') < Len(log) + Len(CallsAt(pc))

\* C18: a failure of the forward or backward pass of a loop pass ends the
\* process: the failure changes no optimizer, scheduler or checkpoint, the
\* pass has no optimizer step, scheduler step, save or validation, the
\* process takes no further step (no retry, no later pass), and the last
\* checkpoint is not the final one.
C18_FatalFailures ==
    /\ [][Fails =>
             /\ pc' = "failed"
             /\ UNCHANGED <<iteration, arguments, enum_index, base_optimizer,
                            energy_optimizer, base_scheduler, energy_scheduler,
                            saved, disk>>]_vars
    /\ [](pc = "failed" =>
             /\ Ops(log) \cap {"base_optimizer.step", "energy_optimizer.step",
                               "energy_scheduler.step", "base_scheduler.step",
                               "checkpointer.save", "run_energy_val"} = {}
             /\ saved = <<>>
             /\ ~(disk.exists /\ disk.name = FinalName)
             /\ disk.iteration < iteration)
    /\ [][pc = "failed" => restarts' = restarts + 1]_vars

\* the backward pass of the pass with iteration = max_iter has failed, in a
\* pass in which a periodic save and the final save were due
C18_Witness ==
    /\ pc = "failed"
    /\ iteration = cfg.MAX_ITER
    /\ CheckpointDue(iteration, cfg.CHECKPOINT_PERIOD)
    /\ "base_optimizer.zero_grad" \in Ops(log)
    /\ disk.exists
    /\ saved = <<>>

(* ------------------------------------------------------------------------ *)
\* the optimizer steps of the pass have been made
AfterStep == pc \in {"checkpoint", "save_final"} \/ AfterCheckpoint

\* the position of the one call of op in a log that has exactly one
TheCall(l, op) == CHOOSE i \in Positions(l, op) : TRUE

\* every call of op in l comes before every call of op2
Before(l, op, op2) ==
    \A i \in Positions(l, op), j \in Positions(l, op2) : i < j

ZeroGradOps == {"base_optimizer.zero_grad", "energy_optimizer.zero_grad"}
ClipOps == {"clip_grad_norm.energy_model", "clip_grad_norm.base_model"}
StepOps == {"base_optimizer.step", "energy_optimizer.step"}

\* C19: in a pass that has made its optimizer steps, each optimizer was
\* zeroed once, then total_losses = task losses + energy losses was scaled
\* once, in one context of both optimizers, then one backward pass was made,
\* then the gradients of each model were clipped once, then each optimizer
\* stepped once; and at no time has an optimizer stepped without the backward
\* pass and both clippings of its pass before it.
C19_StepOrdering ==
    /\ AfterStep =>
          /\ \A op \in ZeroGradOps \cup {"amp.scale_loss", "backward"}
                         \cup ClipOps \cup StepOps :
                Cardinality(Positions(log, op)) = 1
          /\ \A z \in ZeroGradOps : Before(log, z, "amp.scale_loss")
          /\ TheCall(log, "backward") = TheCall(log, "amp.scale_loss") + 1
          /\ \A c \in ClipOps : Before(log, "backward", c)
          /\ \A c \in ClipOps, o \in StepOps : Before(log, c, o)
          /\ LET scale == log[TheCall(log, "amp.scale_loss")]
             IN  /\ scale.arg = Rat(fwd.losses.task_losses + fwd.losses.energy_losses, 1)
                 /\ scale.optimizers = <<"base_optimizer", "energy_optimizer">>
    /\ \A i \in OptimizerSteps(log) :
          \A op \in {"backward"} \cup ClipOps :
              \E j \in Positions(log, op) : j < i

\* both optimizers have stepped in a pass whose objective was 2 + 4
C19_Witness ==
    /\ pc = "checkpoint"
    /\ Cardinality(OptimizerSteps(log)) = 2
    /\ fwd.done
    /\ fwd.losses.task_losses = 2
    /\ fwd.losses.energy_losses = 4
    /\ \E i \in Positions(log, "amp.scale_loss") : log[i].arg = Rat(6, 1)

(* ------------------------------------------------------------------------ *)
\* the forward pass of the pass has been made
AfterForward == pc \in {"zero_grad", "backward", "clip", "step"} \/ AfterStep
                \/ (pc = "failed" /\ "reduce_loss_dict" \in Ops(log))

\* C20: in a pass that has made its forward pass the sampler was called
\* once, on the graph of the detections as detection2graph built it and with
\* set_grad=False, before the energy model scored anything; the positive
\* energy is the energy model's score of the graph of the targets, which the
\* sampler never had, and the negative energy is its score of the graph the
\* sampler returned.
C20_Pairing ==
    AfterForward =>
        /\ fwd.done
        /\ Len(fwd.sampler_calls) = 1
        /\ fwd.sampler_calls[1].graph = fwd.pred_graph
        /\ fwd.sampler_calls[1].set_grad = FALSE
        /\ fwd.pred_graph = detection2graph(fwd.pred_graph.node_states)
        /\ fwd.gt_graph = gt2graph(fwd.gt_graph.node_states)
        /\ fwd.positive_energy = energy_model(fwd.gt_graph)
        /\ \A i \in 1..Len(fwd.sampler_calls) : fwd.sampler_calls[i].graph # fwd.gt_graph
        /\ fwd.pred_scene_graph = Sample(fwd.sampler_calls[1].graph)
        /\ fwd.negative_energy = energy_model(fwd.pred_scene_graph)
        /\ fwd.negative_energy # energy_model(fwd.pred_graph)
        /\ Cardinality(Positions(log, "sampler.sample")) = 1
        /\ Cardinality(Positions(log, "energy_model")) = 2
        /\ Before(log, "sampler.sample", "energy_model")

\* a forward pass was made: the positive energy scores the unsampled graph
\* of the targets, the negative energy the sampled graph of the detections
C20_Witness ==
    /\ pc = "zero_grad"
    /\ fwd.done
    /\ fwd.positive_energy.energy_of.from = "targets"
    /\ ~fwd.positive_energy.energy_of.sampled
    /\ fwd.negative_energy.energy_of.from = "detections"
    /\ fwd.negative_energy.energy_of.sampled
    /\ Positions(log, "sampler.sample") # {}

(* ------------------------------------------------------------------------ *)
\* C21: in every pass that has made its forward pass, the graph of the
\* detections was built on the detector's feature states; the graph of the
\* targets was built on the same feature states when the mode is not
\* "sgdet", and on no node states (None) when the mode is "sgdet".
C21_NodeFeatures ==
    AfterForward =>
        /\ fwd.done
        /\ fwd.pred_graph.from = "detections"
        /\ fwd.pred_graph.node_states = "roi_features"
        /\ fwd.gt_graph.from = "targets"
        /\ cfg.MODE # "sgdet" =>
              fwd.gt_graph.node_states = fwd.pred_graph.node_states
        /\ cfg.MODE = "sgdet" => fwd.gt_graph.node_states = "None"
        /\ Cardinality(Positions(log, "gt2graph")) = 1
        /\ Cardinality(Positions(log, "detection2graph")) = 1

\* a forward pass in mode "sgdet": the graph of the targets has no node
\* states, the graph of the detections has the feature states
C21_Witness ==
    /\ pc = "zero_grad"
    /\ cfg.MODE = "sgdet"
    /\ fwd.done
    /\ fwd.gt_graph.node_states = "None"
    /\ fwd.pred_graph.node_states = "roi_features"
    /\ Positions(log, "gt2graph") # {}

(* ------------------------------------------------------------------------ *)
\* the clipping calls of the pass have been made
AfterClip == pc = "step" \/ AfterStep

\* the pass is the first one this process executes
FirstPass == iteration = start_iter + 1

\* C22: in every pass the gradients of the energy model are clipped, then
\* those of the detector, once each; both calls are given the same verbose
\* flag, which is set exactly when the pass is the first one the process
\* executes or its iteration is a multiple of PRINT_GRAD_FREQ; and each call
\* is given exactly the parameters of its model that have gradients enabled.
\* No clipping call is made before that point of the pass.
C22_GradientDiagnostics ==
    /\ AfterClip =>
          /\ \A c \in ClipOps : Cardinality(Positions(log, c)) = 1
          /\ Before(log, "clip_grad_norm.energy_model", "clip_grad_norm.base_model")
          /\ LET e == log[TheCall(log, "clip_grad_norm.energy_model")]
                 b == log[TheCall(log, "clip_grad_norm.base_model")]
             IN  /\ e.verbose = b.verbose
                 /\ e.verbose <=>
                       (FirstPass \/ iteration % cfg.PRINT_GRAD_FREQ = 0)
                 /\ e.params = {m \in {"energy_model"} : requires_grad[m]}
                 /\ b.params = {m \in BaseModules : requires_grad[m]}
    /\ pc \in {"train", "fix", "energy_train", "forward", "zero_grad",
                "backward", "clip"} => ClipOps \cap Ops(log) = {}

\* the first pass of a process that resumed from a checkpoint, at an
\* iteration that is no multiple of PRINT_GRAD_FREQ: the two clipping calls
\* are verbose, and the detector's call leaves out the frozen modules
C22_Witness ==
    /\ pc = "step"
    /\ start_iter > 0
    /\ FirstPass
    /\ iteration % cfg.PRINT_GRAD_FREQ # 0
    /\ \A c \in ClipOps : \E i \in Positions(log, c) : log[i].verbose
    /\ \E i \in Positions(log, "clip_grad_norm.base_model") :
          /\ log[i].params # BaseModules
          /\ log[i].params # {}

(* ------------------------------------------------------------------------ *)
\* the checkpointer.save calls of the pass are made by this step
Saves == pc \in {"checkpoint", "save_final"} /\ saved' # saved

\* the schedulers have stepped in this pass
AfterSchedule == pc = "dev_run" \/ PassEnded

\* C23: every save of a pass is made after both optimizer steps and before
\* the validation and the scheduler steps of that pass. When pass k of a
\* process (k counted from the start of the process) saves, each optimizer
\* has stepped k times and each scheduler k-1 times in that process, and the
\* optimizer and scheduler states persisted are the ones held at that
\* moment. Once the schedulers have stepped in a pass that saved, the energy
\* scheduler held in memory is exactly one step, the step given the
\* val_result of the pass, ahead of the persisted one.
C23_CheckpointSchedulerSkew ==
    /\ [][Saves =>
            LET k == iteration - start_iter
            IN  /\ k >= 1
                /\ step_calls.base_optimizer = k
                /\ step_calls.energy_optimizer = k
                /\ step_calls.energy_scheduler = k - 1
                /\ step_calls.base_scheduler = k - 1
                /\ Cardinality(OptimizerSteps(log)) = 2
                /\ SchedulerSteps(log) = {}
                /\ "run_energy_val" \notin Ops(log)
                /\ disk'.exists
                /\ disk'.iteration = iteration
                /\ disk'.energy_optimizer = energy_optimizer
                /\ disk'.energy_scheduler = energy_scheduler]_vars
    /\ [](AfterCheckpoint =>
            /\ Before(log, "checkpointer.save", "run_energy_val")
            /\ Before(log, "checkpointer.save", "energy_scheduler.step")
            /\ Before(log, "checkpointer.save", "base_scheduler.step")
            /\ \A o \in StepOps : Before(log, o, "checkpointer.save"))
    /\ []((AfterSchedule /\ saved # <<>>) =>
            /\ disk.iteration = iteration
            /\ disk.energy_scheduler # energy_scheduler
            /\ energy_scheduler =
                  IF cfg.SCHEDULE_TYPE = PLATEAU
                  THEN PlateauStep(disk.energy_scheduler, val_result, iteration)
                  ELSE PlainStep(disk.energy_scheduler)
            /\ step_calls.energy_scheduler = iteration - start_iter
            /\ step_calls.energy_optimizer = iteration - start_iter)

\* the schedulers have stepped in a pass that saved a periodic checkpoint
\* and validated: the validation result moved the energy scheduler held in
\* memory, and the persisted scheduler has not seen it
C23_Witness ==
    /\ pc = "dev_run"
    /\ saved # <<>>
    /\ cfg.SCHEDULE_TYPE = PLATEAU
    /\ "run_energy_val" \in Ops(log)
    /\ val_result # None
    /\ iteration - start_iter >= 2
    /\ disk.iteration = iteration
    /\ disk.energy_optimizer.steps = iteration
    /\ energy_scheduler.best # disk.energy_scheduler.best

(* ------------------------------------------------------------------------ *)
\* the saves of model_final among the saves sv of a pass
FinalSaves(sv) == {i \in 1..Len(sv) : sv[i].name = FinalName}

\* model_final is the last checkpoint of the output directory
FinalOnDisk == disk.exists /\ disk.name = FinalName

\* the loop is left by a break of this step
EarlyStopStep == pc \in {"schedule", "dev_run"} /\ pc' = "done"

\* C24: model_final is saved only in a pass with iteration = max_iter, once
\* in that pass and never when the output directory already holds it, so at
\* most once in a run. The loop is left only at the loop head, by the
\* plateau stop or by the development-run stop; the two stops are taken only
\* when the saves and the validation due in the pass have been made, and a
\* process that stopped at an iteration < max_iter has never saved
\* model_final.
C24_FinalCheckpointOnce ==
    /\ [](/\ Cardinality(FinalSaves(saved)) <= 1
          /\ FinalSaves(saved) # {} => iteration = cfg.MAX_ITER
          /\ FinalOnDisk => disk.iteration = cfg.MAX_ITER
          /\ (pc = "done" /\ enum_index > start_iter /\ iteration < cfg.MAX_ITER)
                => (FinalSaves(saved) = {} /\ ~FinalOnDisk))
    /\ [][(FinalSaves(saved') # {} /\ saved' # saved) =>
            /\ pc = "save_final"
            /\ iteration = cfg.MAX_ITER
            /\ FinalSaves(saved) = {}
            /\ ~FinalOnDisk
            /\ FinalOnDisk']_vars
    /\ [][(pc' = "done" /\ pc # "done") =>
            /\ pc \in {"fetch", "schedule", "dev_run"}
            /\ pc = "fetch" => enum_index = cfg.MAX_ITER]_vars
    /\ [][EarlyStopStep =>
            /\ Len(saved) = Len(SaveNames)
            /\ Cardinality(Positions(log, "checkpointer.save")) = Len(SaveNames)
            /\ Cardinality(Positions(log, "run_energy_val"))
                  = IF ValDue(cfg, iteration) THEN 1 ELSE 0
            /\ pc = "dev_run" => Cardinality(SchedulerSteps(log)) = 2
            /\ iteration < cfg.MAX_ITER => (FinalSaves(saved) = {} /\ ~FinalOnDisk')]_vars

\* the development run stopped at iteration 10 of a longer training: the
\* pass saved its periodic checkpoint but not model_final
C24_Witness ==
    /\ pc = "done"
    /\ cfg.DEV_RUN
    /\ iteration = DevRunStop
    /\ iteration < cfg.MAX_ITER
    /\ saved # <<>>
    /\ FinalSaves(saved) = {}
    /\ disk.exists
    /\ disk.name = PeriodicName(iteration)

(* ------------------------------------------------------------------------ *)
\* rank r has returned from run_energy_val in this pass
Validated(r) == procs[r].pc = "schedule" /\ ValDue(cfg, procs[r].iteration)

\* by rank, the result of the last dataset of DATASETS.VAL
LastResults ==
    [i \in 1..NumRanks |-> procs[i - 1].results[Len(procs[i - 1].results)]]

\* C25: when run_energy_val has returned on a rank, every rank has
\* evaluated every dataset of DATASETS.VAL and passed one barrier after each,
\* and the scalar returned is the mean of the valid entries among the
\* results the ranks had for the last dataset, whatever the results of the
\* earlier datasets were; under the plateau schedule that scalar is what both
\* schedulers are stepped with and what decides the plateau stop.
C25_LastDatasetOnly ==
    /\ [](\A r \in Ranks : Validated(r) =>
            /\ \A i \in Ranks :
                  /\ Len(procs[i].results) = cfg.VAL_DATASETS
                  /\ procs[i].datasets_done = cfg.VAL_DATASETS
            /\ procs[r].val_result = RunEnergyValResult(LastResults))
    /\ [][\A r \in Ranks :
            (Validated(r) /\ procs'[r].pc # "schedule"
                          /\ cfg.SCHEDULE_TYPE = PLATEAU) =>
                LET v  == RunEnergyValResult(LastResults)
                    es == PlateauStep(procs[r].energy_scheduler, v, procs[r].iteration)
                    bs == PlateauStep(procs[r].base_scheduler, v, procs[r].iteration)
                IN  /\ procs'[r].energy_scheduler = es
                    /\ procs'[r].base_scheduler = bs
                    /\ procs'[r].pc = "done" <=>
                          \/ PlateauReached(es, bs, cfg.MAX_DECAY_STEP)
                          \/ DevRunHit(cfg, procs[r].iteration)]_vars

\* two validation datasets: rank 0 had 0.5 for the first and 0.2 for the
\* second, and run_energy_val returned 0.2
C25_Witness ==
    /\ cfg.VAL_DATASETS = 2
    /\ cfg.SCHEDULE_TYPE = PLATEAU
    /\ Validated(0)
    /\ procs[0].results = <<5, 2>>
    /\ procs[0].val_result = Rat(2, 1)

====
